---- MODULE Spec2Model ----
(***************************************************************************)
(* The image crop tool (Index page component): viewport transform,         *)
(* crop geometry, clarity easing loop, pixel filter pipeline and image     *)
(* loads; and the print layout editor (PrintLayoutEditor component).       *)
(*                                                                         *)
(* JS numbers are modelled as exact rationals <<n, d>> (d > 0, lowest      *)
(* terms); byte arrays (Uint8ClampedArray) as sequences of 0..255.         *)
(* React state is modelled as the latest reduced state; `rendered` is the  *)
(* state captured by the closures of the last render (what a handler       *)
(* reads when it does not go through a functional updater).                *)
(***************************************************************************)
EXTENDS Integers, Sequences, FiniteSets, TLC

VARIABLES
    image,              \* useState image: NoImage or [id, w, h]
    imageLoaded,        \* useState imageLoaded
    dragMoved,          \* useState dragMoved
    fitMode,            \* useState fitMode: "fit" | "fill"
    imageState,         \* useState imageState
    paperSize,          \* useState paperSize (inches, rationals)
    cropSize,           \* useState cropSize (inches, rationals)
    cropInput,          \* useState cropInput: the texts of the crop size fields
    customPaper,        \* useState customPaper: the texts of the paper size fields
    paperPreset,        \* useState paperPreset
    dpi,                \* useState dpi
    innerHeight,        \* window.innerHeight
    canvas,             \* canvasRef.current: [width, height]
    clarity,            \* useState clarity (the animated "current")
    targetClarity,      \* useState targetClarity
    animatingClarity,   \* useState animatingClarity
    brightness,         \* useState brightness
    contrast,           \* useState contrast
    rafPending,         \* pending requestAnimationFrame callbacks
    animationFrame,     \* handle held by the live clarity effect (0: none)
    rendered,           \* state captured by the closures of the last render
    overlay,            \* crop overlay rectangle drawn by the last drawCanvas
    shown,              \* what the last drawCanvas put on the canvas under it
    cropOut,            \* raster of the last getCroppedCanvas (or NoCrop)
    srcData,            \* filter pipeline input raster
    outData,            \* filter pipeline output raster (or NoRaster)
    loads,              \* the loads started so far: FileReader / Image in flight or done
    pageSize,           \* layout editor: useState pageSize ("4x6" | "a4")
    photos,             \* layout editor: useState photos (PhotoOnPage[])
    selectedPhotoIds,   \* layout editor: useState selectedPhotoIds
    dragging,           \* layout editor: useState dragging
    dragOffset,         \* layout editor: useState dragOffset
    photoSeq,           \* layout editor: photos added so far (ids are fresh)
    lastOp,             \* the handler that ran last, with its inputs
    nOps                \* number of user input events handled so far

vars == <<image, imageLoaded, dragMoved, fitMode, imageState, paperSize,
          cropSize, cropInput, customPaper, paperPreset, dpi, innerHeight,
          canvas, clarity, targetClarity,
          animatingClarity, brightness, contrast, rafPending, animationFrame,
          rendered, overlay, shown, cropOut, srcData, outData, loads,
          pageSize, photos, selectedPhotoIds, dragging, dragOffset, photoSeq,
          lastOp, nOps>>

sessionVars == <<image, imageLoaded, fitMode>>
geometryVars == <<paperSize, cropSize, cropInput, customPaper, paperPreset, dpi, innerHeight>>
easingVars == <<clarity, targetClarity, animatingClarity, rafPending, animationFrame>>
toneVars == <<brightness, contrast>>
filterVars == <<srcData, outData>>
drawnVars == <<overlay, shown>>
loadVars == <<loads>>
layoutVars == <<pageSize, photos, selectedPhotoIds, dragging, dragOffset, photoSeq>>
\* the state of the Index component proper
indexVars == <<sessionVars, dragMoved, imageState, geometryVars, canvas, easingVars,
               toneVars, rendered, drawnVars, cropOut, filterVars>>

-----------------------------------------------------------------------------
(* Bounds of the model *)

\* user input events per behaviour
MaxOps == 4
\* image loads per behaviour
MaxLoads == 2
\* easing ticks are cut off once the denominator of clarity reaches 5^MaxExp
MaxExp == 8
\* pending animation-frame callbacks the model keeps track of
MaxFrames == 3

-----------------------------------------------------------------------------
(* Exact rational arithmetic *)

Abs(x) == IF x < 0 THEN -x ELSE x

RECURSIVE Gcd(_, _)
Gcd(a, b) == IF b = 0 THEN a ELSE Gcd(b, a % b)

Q(n, d) ==
    LET g == Gcd(Abs(n), Abs(d))
        s == IF d < 0 THEN -1 ELSE 1
    IN  <<(s * n) \div g, (s * d) \div g>>

QI(n) == <<n, 1>>
Lcm(a, b) == (a \div Gcd(a, b)) * b
QAdd(a, b) ==
    LET l == Lcm(a[2], b[2])
    IN  Q(a[1] * (l \div a[2]) + b[1] * (l \div b[2]), l)
QNeg(a) == <<-a[1], a[2]>>
QSub(a, b) == QAdd(a, QNeg(b))
QMul(a, b) ==
    LET g1 == Gcd(Abs(a[1]), b[2])
        g2 == Gcd(Abs(b[1]), a[2])
    IN  Q((a[1] \div g1) * (b[1] \div g2), (a[2] \div g2) * (b[2] \div g1))
QInv(a) == IF a[1] > 0 THEN <<a[2], a[1]>> ELSE <<-a[2], -a[1]>>
QDiv(a, b) == QMul(a, QInv(b))
QLt(a, b) ==
    LET l == Lcm(a[2], b[2])
    IN  a[1] * (l \div a[2]) < b[1] * (l \div b[2])
QLe(a, b) == ~QLt(b, a)
QMin(a, b) == IF QLt(b, a) THEN b ELSE a
QMax(a, b) == IF QLt(a, b) THEN b ELSE a
QAbs(a) == <<Abs(a[1]), a[2]>>
QFloor(a) == a[1] \div a[2]

\* Math.round: the nearest integer, ties towards +infinity
MathRound(a) == QFloor(QAdd(a, <<1, 2>>))

-----------------------------------------------------------------------------
(* IEEE 754 double arithmetic, for the pixel sizes that are rounded to integers *)

\* A natural number below 2^120 is a tuple of NLimbs limbs in base LimbBase,
\* the least significant first.
LimbBits == 15
LimbBase == 32768
NLimbs == 8

Limb(v, i) == IF i \in 1..NLimbs THEN v[i] ELSE 0

\* the tuple of the limbs at(1), ..., at(NLimbs)
Limbs(at(_)) == <<at(1), at(2), at(3), at(4), at(5), at(6), at(7), at(8)>>

LimbsOfInt(n) ==
    <<n % LimbBase, (n \div LimbBase) % LimbBase, n \div (LimbBase * LimbBase),
      0, 0, 0, 0, 0>>

\* the value of a tuple whose value is below 2^31
IntOfLimbs(v) == v[1] + LimbBase * v[2] + LimbBase * LimbBase * v[3]

\* limbs that outgrew LimbBase brought back below it, the overflow of each
\* limb carried into the next
Carry(v) ==
    LET s1 == v[1]
        s2 == v[2] + (s1 \div LimbBase)
        s3 == v[3] + (s2 \div LimbBase)
        s4 == v[4] + (s3 \div LimbBase)
        s5 == v[5] + (s4 \div LimbBase)
        s6 == v[6] + (s5 \div LimbBase)
        s7 == v[7] + (s6 \div LimbBase)
        s8 == v[8] + (s7 \div LimbBase)
    IN  <<s1 % LimbBase, s2 % LimbBase, s3 % LimbBase, s4 % LimbBase,
          s5 % LimbBase, s6 % LimbBase, s7 % LimbBase, s8 % LimbBase>>

SmallBitLen(n) == Cardinality({k \in 0..(LimbBits - 1) : 2 ^ k <= n})

BitLen(v) ==
    LET top == IF v[8] # 0 THEN 8 ELSE IF v[7] # 0 THEN 7 ELSE IF v[6] # 0 THEN 6
               ELSE IF v[5] # 0 THEN 5 ELSE IF v[4] # 0 THEN 4
               ELSE IF v[3] # 0 THEN 3 ELSE IF v[2] # 0 THEN 2 ELSE 1
    IN  (top - 1) * LimbBits + SmallBitLen(v[top])

\* v * 2^k
ShiftLeft(v, k) ==
    LET limbs == k \div LimbBits
        p == 2 ^ (k % LimbBits)
        at(i) == ((Limb(v, i - limbs) * p) % LimbBase)
                 + ((Limb(v, i - limbs - 1) * p) \div LimbBase)
    IN  Limbs(at)

\* floor(v / 2^k), and whether bits were dropped
ShiftRight(v, k) ==
    LET limbs == k \div LimbBits
        bits == k % LimbBits
        p == 2 ^ bits
        at(i) == (Limb(v, i + limbs) \div p)
                 + (Limb(v, i + limbs + 1) % p) * 2 ^ (LimbBits - bits)
    IN  [q |-> Limbs(at),
         sticky |-> \/ \E i \in 1..NLimbs : i <= limbs /\ v[i] # 0
                    \/ Limb(v, limbs + 1) % p # 0]

IsOdd(v) == v[1] % 2 = 1

\* a * b for a, b < 2^60: the low and the high half of every limb product go
\* to their columns, then the columns are carried
LimbProduct(a, b) ==
    LET lo(i, j) == IF i \in 1..4 /\ j \in 1..4 THEN (a[i] * b[j]) % LimbBase ELSE 0
        hi(i, j) == IF i \in 1..4 /\ j \in 1..4 THEN (a[i] * b[j]) \div LimbBase ELSE 0
        col(k) == lo(1, k) + lo(2, k - 1) + lo(3, k - 2) + lo(4, k - 3)
                  + hi(1, k - 1) + hi(2, k - 2) + hi(3, k - 3) + hi(4, k - 4)
    IN  Carry(Limbs(col))

\* A double is [s, m, e] with value s * m * 2^e, s in {-1, 0, 1} and
\* 2^52 <= m < 2^53 (the values here are far from the subnormal and the
\* overflow range).
MantissaBits == 53

DZero == [s |-> 0, m |-> LimbsOfInt(0), e |-> 0]

\* the double nearest to sign * (n + f) * 2^e, ties to even, where n > 0 and
\* 0 <= f < 1 with f # 0 exactly when inexact
RoundToDouble(sign, n, e, inexact) ==
    LET len == BitLen(n)
        k == len - MantissaBits
        withRound == ShiftRight(n, k - 1)
        q == ShiftRight(withRound.q, 1).q
        sticky == withRound.sticky \/ inexact
        up == IsOdd(withRound.q) /\ (sticky \/ IsOdd(q))
        m == IF up THEN Carry([q EXCEPT ![1] = @ + 1]) ELSE q
    IN  IF len <= MantissaBits
        THEN [s |-> sign, m |-> ShiftLeft(n, MantissaBits - len),
              e |-> e - (MantissaBits - len)]
        ELSE IF BitLen(m) > MantissaBits
        THEN [s |-> sign, m |-> ShiftRight(m, 1).q, e |-> e + k + 1]
        ELSE [s |-> sign, m |-> m, e |-> e + k]

\* the double nearest to the rational n / d, for 0 < d < LimbBase and
\* |n / d| >= 1 / LimbBase: a decimal literal, parseFloat of a decimal text, or
\* the quotient of two integers.  The quotient is developed to five limbs
\* after the point by long division.
ToDouble(n, d) ==
    LET a == Abs(n)
        q0 == a \div d
        r0 == a % d
        r1 == (r0 * LimbBase) % d
        r2 == (r1 * LimbBase) % d
        r3 == (r2 * LimbBase) % d
        r4 == (r3 * LimbBase) % d
        r5 == (r4 * LimbBase) % d
        quot == <<(r4 * LimbBase) \div d, (r3 * LimbBase) \div d,
                  (r2 * LimbBase) \div d, (r1 * LimbBase) \div d,
                  (r0 * LimbBase) \div d,
                  q0 % LimbBase, (q0 \div LimbBase) % LimbBase,
                  q0 \div (LimbBase * LimbBase)>>
    IN  IF n = 0 THEN DZero
        ELSE RoundToDouble(IF n < 0 THEN -1 ELSE 1, quot, -5 * LimbBits, r5 # 0)

\* a * b
DMul(a, b) ==
    IF a.s = 0 \/ b.s = 0 THEN DZero
    ELSE RoundToDouble(a.s * b.s, LimbProduct(a.m, b.m), a.e + b.e, FALSE)

\* Math.round of a double below 2^30 in size: floor(x + 1/2), computed exactly
DMathRound(x) ==
    LET twice == ShiftRight(x.m, -x.e - 1)
        up == (IntOfLimbs(twice.q) + 1) \div 2
        tie == ~twice.sticky /\ IsOdd(twice.q)
    IN  IF x.s = 0 THEN 0
        ELSE IF x.e >= 0 THEN x.s * IntOfLimbs(ShiftLeft(x.m, x.e))
        ELSE IF x.s > 0 THEN up
        ELSE IF tie THEN -(up - 1) ELSE -up

-----------------------------------------------------------------------------
(* Paper / canvas sizing *)

NoImage == [id |-> 0, w |-> 0, h |-> 0]

\* getScaleFactor: screenH / (defaultPaperHIn * dpi), screenH = innerHeight - 120,
\* the quotient of two integers rounded to a double
GetScaleFactor(d, ih) == ToDouble(ih - 120, 6 * d)

\* inchesToPx: Math.round(inches * dpi * getScaleFactor()), each product
\* rounded to a double, left to right.  The size in inches is held as the
\* rational it was entered as and becomes a double here.
InchesToPxDouble(inches, d, ih) ==
    DMathRound(DMul(DMul(ToDouble(inches[1], inches[2]), ToDouble(d, 1)),
                    GetScaleFactor(d, ih)))
\* the DPI Select
Dpis == {300, 76}

\* window.innerHeight after a resize
ResizeHeights == {1020, 887, 720}

\* inchesToPx.  The exact product is inches * screenH / 6, a rational with a
\* small denominator, and the double that the code computes is within a few
\* units of 2^-53 of it in relative terms: the two round to the same integer
\* unless the exact product lies halfway between two integers, and only then
\* do the rounding errors of the double products decide.
InchesToPx(inches, d, ih) ==
    LET exact == QMul(inches, Q(ih - 120, 6))
    IN  IF QMul(exact, QI(2))[2] = 1 /\ exact[2] = 2
        THEN InchesToPxDouble(inches, d, ih)
        ELSE MathRound(exact)

CanvasSize(ps, d, ih) ==
    [width |-> InchesToPx(ps.w, d, ih), height |-> InchesToPx(ps.h, d, ih)]

-----------------------------------------------------------------------------
(* Viewport transform *)

\* ResetImageState with the two fit modes exchanged
ResetImageStateSwapped(st, loaded, img, cv, fit) ==
    IF ~loaded \/ img = NoImage THEN st
    ELSE LET cw == QI(cv.width)
             ch == QI(cv.height)
             iw == QI(img.w)
             ih == QI(img.h)
             scale == IF fit = "fit"
                      THEN QMax(QDiv(cw, iw), QDiv(ch, ih))
                      ELSE QMin(QDiv(cw, iw), QDiv(ch, ih))
         IN  [scale |-> scale,
              offsetX |-> QDiv(QSub(cw, QMul(iw, scale)), QI(2)),
              offsetY |-> QDiv(QSub(ch, QMul(ih, scale)), QI(2)),
              dragging |-> FALSE,
              lastX |-> 0,
              lastY |-> 0]

\* resetImageState: the transform that fits (or fills) and centers the image
ResetImageState(st, loaded, img, cv, fit) ==
    IF ~loaded \/ img = NoImage THEN st
    ELSE LET cw == QI(cv.width)
             ch == QI(cv.height)
             iw == QI(img.w)
             ih == QI(img.h)
             scale == IF fit = "fit"
                      THEN QMin(QDiv(cw, iw), QDiv(ch, ih))
                      ELSE QMax(QDiv(cw, iw), QDiv(ch, ih))
         IN  [scale |-> scale,
              offsetX |-> QDiv(QSub(cw, QMul(iw, scale)), QI(2)),
              offsetY |-> QDiv(QSub(ch, QMul(ih, scale)), QI(2)),
              dragging |-> FALSE,
              lastX |-> 0,
              lastY |-> 0]

\* ZoomAt with the offsets computed from the scale before the clamp
ZoomAtUnclampedOffsets(st, mx, my, zoomFactor) ==
    LET beforeX == QDiv(QSub(QI(mx), st.offsetX), st.scale)
        beforeY == QDiv(QSub(QI(my), st.offsetY), st.scale)
        raw == QMul(st.scale, zoomFactor)
    IN  [scale |-> QMax(<<1, 20>>, QMin(QI(5), raw)),
         offsetX |-> QSub(QI(mx), QMul(beforeX, raw)),
         offsetY |-> QSub(QI(my), QMul(beforeY, raw))]

\* handleWheel: anchor-preserving zoom computed from the rendered state st
ZoomAt(st, mx, my, zoomFactor) ==
    LET beforeX == QDiv(QSub(QI(mx), st.offsetX), st.scale)
        beforeY == QDiv(QSub(QI(my), st.offsetY), st.scale)
        newScale == QMax(<<1, 20>>, QMin(QI(5), QMul(st.scale, zoomFactor)))
    IN  [scale |-> newScale,
         offsetX |-> QSub(QI(mx), QMul(beforeX, newScale)),
         offsetY |-> QSub(QI(my), QMul(beforeY, newScale))]

\* handleZoomChange: absolute scale from the slider, anchored at the canvas centre
SetScale(st, cv, newScale) ==
    LET cx == QDiv(QI(cv.width), QI(2))
        cy == QDiv(QI(cv.height), QI(2))
        beforeX == QDiv(QSub(cx, st.offsetX), st.scale)
        beforeY == QDiv(QSub(cy, st.offsetY), st.scale)
    IN  [scale |-> newScale,
         offsetX |-> QSub(cx, QMul(beforeX, newScale)),
         offsetY |-> QSub(cy, QMul(beforeY, newScale))]

\* Nudge whose step is 2 image pixels, scaled into canvas pixels
NudgeScaled(prev, key) ==
    CASE key = "ArrowUp" -> [prev EXCEPT !.offsetY = QSub(@, QMul(QI(2), prev.scale))]
      [] key = "ArrowDown" -> [prev EXCEPT !.offsetY = QAdd(@, QMul(QI(2), prev.scale))]
      [] key = "ArrowLeft" -> [prev EXCEPT !.offsetX = QSub(@, QMul(QI(2), prev.scale))]
      [] key = "ArrowRight" -> [prev EXCEPT !.offsetX = QAdd(@, QMul(QI(2), prev.scale))]
      [] OTHER -> prev

\* handleKeyDown's updater
Nudge(prev, key) ==
    CASE key = "ArrowUp" -> [prev EXCEPT !.offsetY = QSub(@, QI(2))]
      [] key = "ArrowDown" -> [prev EXCEPT !.offsetY = QAdd(@, QI(2))]
      [] key = "ArrowLeft" -> [prev EXCEPT !.offsetX = QSub(@, QI(2))]
      [] key = "ArrowRight" -> [prev EXCEPT !.offsetX = QAdd(@, QI(2))]
      [] OTHER -> prev

-----------------------------------------------------------------------------
(* Crop region *)

\* drawCanvas: the overlay rectangle (cx, cy are not rounded)
DrawOverlay(cv, cs, d, ih) ==
    LET cropPxW == InchesToPx(cs.w, d, ih)
        cropPxH == InchesToPx(cs.h, d, ih)
    IN  [cx |-> QDiv(QI(cv.width - cropPxW), QI(2)),
         cy |-> QDiv(QI(cv.height - cropPxH), QI(2)),
         cropPxW |-> cropPxW,
         cropPxH |-> cropPxH]

\* the white canvas drawCanvas leaves when there is no image to draw
Blank == [image |-> NoImage, scale |-> QI(1), offsetX |-> QI(0), offsetY |-> QI(0),
          pass |-> <<>>]

\* drawCanvas: the image layer of the canvas for the state r the callback
\* closes over. The pixels are those of r.image drawn with the transform of
\* r.imageState and passed through applyImageFilters with the parameters in
\* pass; pass = <<>> when all three are 0 and the raster is put back as read.
DrawImage(r) ==
    IF r.imageLoaded /\ r.image # NoImage
    THEN [image |-> r.image,
          scale |-> r.imageState.scale,
          offsetX |-> r.imageState.offsetX,
          offsetY |-> r.imageState.offsetY,
          pass |-> IF r.clarity # QI(0) \/ r.brightness # 0 \/ r.contrast # 0
                   THEN <<r.clarity, r.brightness, r.contrast>>
                   ELSE <<>>]
    ELSE Blank

\* getCroppedCanvas: the export rectangle
CropRect(cv, cs, d, ih) ==
    LET cropPxW == InchesToPx(cs.w, d, ih)
        cropPxH == InchesToPx(cs.h, d, ih)
    IN  [cropX |-> MathRound(QDiv(QI(cv.width - cropPxW), QI(2))),
         cropY |-> MathRound(QDiv(QI(cv.height - cropPxH), QI(2))),
         width |-> cropPxW,
         height |-> cropPxH]

\* getCroppedCanvas: the image layer of the export raster for the state r the
\* function closes over and the rectangle rect: r.image drawn with the
\* transform of r.imageState translated by (-cropX, -cropY), then passed
\* through applyImageFilters when one of the three parameters is not 0
ExportImage(r, rect) ==
    [image |-> r.image,
     scale |-> r.imageState.scale,
     offsetX |-> QSub(r.imageState.offsetX, QI(rect.cropX)),
     offsetY |-> QSub(r.imageState.offsetY, QI(rect.cropY)),
     pass |-> IF r.clarity # QI(0) \/ r.brightness # 0 \/ r.contrast # 0
              THEN <<r.clarity, r.brightness, r.contrast>>
              ELSE <<>>]

\* getCroppedCanvas: the raster it returns, as its rectangle in the canvas and
\* its image layer
CroppedCanvas(r, cv, ih) ==
    LET rect == CropRect(cv, r.cropSize, r.dpi, ih)
    IN  [cropX |-> rect.cropX, cropY |-> rect.cropY,
         width |-> rect.width, height |-> rect.height,
         layer |-> ExportImage(r, rect)]

NoCrop == [cropX |-> 0, cropY |-> 0, width |-> 0, height |-> 0, layer |-> Blank]

\* the number NaN (no rational has denominator 0)
NaN == <<0, 0>>

\* A string that is read as a number is the record [num, suffix]: "35mm" is
\* [num |-> 35, suffix |-> "mm"], "1.13" is [num |-> 113/100, suffix |-> ""],
\* and a string with no leading number ("", "abc") has num = NaN.
NumberText(q) == [num |-> q, suffix |-> ""]

\* parseFloat: the leading number of the string, or NaN
ParseFloat(val) == val.num

\* x || fallback: the fallback replaces the falsy numbers 0 and NaN
OrDefault(x, fallback) == IF x = NaN \/ x = QI(0) THEN fallback ELSE x

\* ToFixed2 that cuts the digits after the second decimal instead of rounding
ToFixed2Truncating(q) ==
    IF q = NaN THEN NumberText(NaN)
    ELSE LET n == QFloor(QMul(QAbs(q), QI(100)))
         IN  NumberText(IF q[1] < 0 THEN Q(-n, 100) ELSE Q(n, 100))

\* Number.prototype.toFixed(2): the nearest multiple of 0.01, a tie going
\* away from zero; NaN gives "NaN"
ToFixed2(q) ==
    IF q = NaN THEN NumberText(NaN)
    ELSE LET n == QFloor(QAdd(QMul(QAbs(q), QI(100)), <<1, 2>>))
         IN  NumberText(IF q[1] < 0 THEN Q(-n, 100) ELSE Q(n, 100))

MmToIn(mm) == IF mm = NaN THEN NaN ELSE QDiv(mm, <<254, 10>>)

\* parseValue of handlePresetClick
ParseValue(val) ==
    IF val.suffix = "mm" THEN MmToIn(ParseFloat(val))
    ELSE IF val.suffix = "in" THEN ParseFloat(val)
    ELSE ParseFloat(val)

-----------------------------------------------------------------------------
(* Pixel filter pipeline *)

\* a store into a Uint8ClampedArray: clamp to [0, 255], round to the nearest
\* integer, ties to even
ToUint8Clamped(q) ==
    IF QLe(q, QI(0)) THEN 0
    ELSE IF QLe(QI(255), q) THEN 255
    ELSE LET fl == QFloor(q)
             frac == QSub(q, QI(fl))
         IN  IF QLt(frac, <<1, 2>>) THEN fl
             ELSE IF QLt(<<1, 2>>, frac) THEN fl + 1
             ELSE IF fl % 2 = 0 THEN fl ELSE fl + 1

\* side of the kernel: Math.round(Math.sqrt(kernel.length)) for the 9 weights
Side == 3

\* the accumulated r, g or b (ch = 0, 1, 2) of pixel (x, y): taps (kx, ky) with
\* k = ky * side + kx, from k upwards; a tap outside the raster is skipped
RECURSIVE ConvSum(_, _, _, _, _, _)
ConvSum(img, kernel, x, y, ch, k) ==
    IF k >= Side * Side THEN QI(0)
    ELSE LET halfSide == Side \div 2
             px == x + (k % Side) - halfSide
             py == y + (k \div Side) - halfSide
             rest == ConvSum(img, kernel, x, y, ch, k + 1)
         IN  IF px >= 0 /\ px < img.width /\ py >= 0 /\ py < img.height
             THEN QAdd(QMul(QI(img.data[(py * img.width + px) * 4 + ch + 1]),
                            kernel[k + 1]),
                       rest)
             ELSE rest

\* ApplyConvolution that copies the alpha of the input pixel
ApplyConvolutionKeepAlpha(img, kernel) ==
    [img EXCEPT !.data =
        [i \in 1..Len(img.data) |->
            LET p == (i - 1) \div 4
                ch == (i - 1) % 4
            IN  IF ch = 3 THEN img.data[i]
                ELSE ToUint8Clamped(
                         QMin(QMax(ConvSum(img, kernel, p % img.width,
                                           p \div img.width, ch, 0),
                                   QI(0)),
                              QI(255)))]]

\* applyConvolution: every output byte is computed from the unmodified input
ApplyConvolution(img, kernel) ==
    [img EXCEPT !.data =
        [i \in 1..Len(img.data) |->
            LET p == (i - 1) \div 4
                ch == (i - 1) % 4
            IN  IF ch = 3 THEN 255
                ELSE ToUint8Clamped(
                         QMin(QMax(ConvSum(img, kernel, p % img.width,
                                           p \div img.width, ch, 0),
                                   QI(0)),
                              QI(255)))]]

\* the kernel applyImageFilters builds for a non-zero clarity
ClarityKernel(clarityValue) ==
    IF QLe(QI(0), clarityValue)
    THEN <<QI(0), QI(-1), QI(0),
           QI(-1), QAdd(QI(5), QDiv(clarityValue, QI(20))), QI(-1),
           QI(0), QI(-1), QI(0)>>
    ELSE <<QI(0), QI(1), QI(0),
           QI(1), QAdd(QI(3), QDiv(clarityValue, QI(50))), QI(1),
           QI(0), QI(1), QI(0)>>

\* the contrast factor
ContrastFactor(contrastValue) ==
    Q(259 * (contrastValue + 255), 255 * (259 - contrastValue))

\* RemapChannel with the brightness added before the contrast is applied
RemapChannelBrightnessFirst(c, brightnessValue, contrastValue) ==
    LET brightened == ToUint8Clamped(
                          QMin(QI(255), QMax(QI(0), QI(c + brightnessValue))))
    IN  ToUint8Clamped(
            QAdd(QMul(ContrastFactor(contrastValue), QI(brightened - 128)),
                 QI(128)))

\* the brightness / contrast loop on one colour byte: both results are stored
\* back into the byte array
RemapChannel(c, brightnessValue, contrastValue) ==
    LET contrasted == ToUint8Clamped(
                          QAdd(QMul(ContrastFactor(contrastValue), QI(c - 128)),
                               QI(128)))
    IN  ToUint8Clamped(
            QMin(QI(255), QMax(QI(0), QI(contrasted + brightnessValue))))

\* ApplyImageFilters without the clarityValue !== 0 test: it always convolves
ApplyImageFiltersAlwaysConvolve(sourceImageData, clarityValue, brightnessValue, contrastValue) ==
    LET sharpened == ApplyConvolution(sourceImageData, ClarityKernel(clarityValue))
    IN  IF brightnessValue # 0 \/ contrastValue # 0
        THEN [sharpened EXCEPT !.data =
                 [i \in 1..Len(sharpened.data) |->
                     IF (i - 1) % 4 = 3 THEN sharpened.data[i]
                     ELSE RemapChannel(sharpened.data[i], brightnessValue,
                                       contrastValue)]]
        ELSE sharpened

\* applyImageFilters, on a copy of the source raster
ApplyImageFilters(sourceImageData, clarityValue, brightnessValue, contrastValue) ==
    LET sharpened == IF clarityValue # QI(0)
                     THEN ApplyConvolution(sourceImageData, ClarityKernel(clarityValue))
                     ELSE sourceImageData
    IN  IF brightnessValue # 0 \/ contrastValue # 0
        THEN [sharpened EXCEPT !.data =
                 [i \in 1..Len(sharpened.data) |->
                     IF (i - 1) % 4 = 3 THEN sharpened.data[i]
                     ELSE RemapChannel(sharpened.data[i], brightnessValue,
                                       contrastValue)]]
        ELSE sharpened

-----------------------------------------------------------------------------
(* Clarity easing *)

\* EaseStep that snaps to the target one tick early (threshold 1 for 0.5)
EaseStepEarlySnap(current, target) ==
    LET diff == QSub(QI(target), current)
    IN  IF QLt(QAbs(diff), QI(1))
        THEN [clarity |-> QI(target), stop |-> TRUE]
        ELSE [clarity |-> QAdd(current, QMul(diff, <<1, 5>>)), stop |-> FALSE]

\* the setClarity updater of animate: the new current, and whether
\* setAnimatingClarity(false) is called
EaseStep(current, target) ==
    LET diff == QSub(QI(target), current)
    IN  IF QLt(QAbs(diff), <<1, 2>>)
        THEN [clarity |-> QI(target), stop |-> TRUE]
        ELSE [clarity |-> QAdd(current, QMul(diff, <<1, 5>>)), stop |-> FALSE]

-----------------------------------------------------------------------------
(* Inputs the model draws from *)

\* clarity slider values: integers in [-100, 100]
Targets == {0, 2, 50}

\* window.innerHeight: screenH = 600
InnerHeights == {720}
\* decoded image sizes <<width, height>>
ImageSizes == {<<1000, 1000>>, <<100, 50>>}
\* pointer positions (clientX, clientY; canvas-relative for the wheel)
Points == {<<0, 0>>, <<300, 450>>}
\* zoomFactor = exp(-deltaY * 0.0012), a positive real
ZoomFactors == {<<1, 4>>, <<4, 1>>}
\* zoom slider values: multiples of 0.01 in [0.05, 5]
SliderScales == {<<1, 20>>, <<1, 1>>, <<5, 1>>}
Keys == {"ArrowUp", "ArrowDown", "ArrowLeft", "ArrowRight", "a"}
FitModes == {"fit", "fill"}

-----------------------------------------------------------------------------
(* React render *)

\* the state a render captures in its closures
Current ==
    [imageLoaded |-> imageLoaded, image |-> image, fitMode |-> fitMode,
     imageState |-> imageState, cropSize |-> cropSize, paperSize |-> paperSize,
     cropInput |-> cropInput, customPaper |-> customPaper,
     paperPreset |-> paperPreset, dpi |-> dpi, clarity |-> clarity, brightness |-> brightness,
     contrast |-> contrast, targetClarity |-> targetClarity,
     animatingClarity |-> animatingClarity]

\* DrawDeps without the brightness
DrawDepsNoBrightness(r) ==
    <<r.imageLoaded, r.image, r.imageState, r.cropSize, r.dpi, r.paperSize,
      r.clarity, r.contrast>>

\* dependencies of the effect that runs updateCanvasSize and drawCanvas
DrawDeps(r) ==
    <<r.imageLoaded, r.image, r.imageState, r.cropSize, r.dpi, r.paperSize,
      r.clarity, r.brightness, r.contrast>>

\* ResetDeps without the fit mode
ResetDepsImageOnly(r) == <<r.imageLoaded, r.image>>

\* dependencies of the effect that runs resetImageState
ResetDeps(r) == <<r.imageLoaded, r.image, r.fitMode>>

\* dependencies of the clarity animation effect
ClarityDeps(r) == <<r.animatingClarity, r.targetClarity>>

\* requestAnimationFrame: a fresh handle (the smallest one not pending)
NewHandle(pending) ==
    CHOOSE h \in 1..(Cardinality(pending) + 1) :
        /\ \A f \in pending : f.handle # h
        /\ \A k \in 1..(h - 1) : \E f \in pending : f.handle = k

\* CancelFrame that cancels nothing (a cleanup that lost its handle)
CancelFrameNothing(pending, h) == pending

\* cancelAnimationFrame
CancelFrame(pending, h) == {f \in pending : f.handle # h}

\* the clarity effect: cleanup of the previous run, then the new run
ClarityEffectPending ==
    LET cleaned == IF rendered.animatingClarity
                   THEN CancelFrame(rafPending, animationFrame)
                   ELSE rafPending
    IN  IF animatingClarity
        THEN cleaned \cup {[handle |-> NewHandle(cleaned), target |-> targetClarity]}
        ELSE cleaned

ClarityEffectHandle ==
    LET cleaned == IF rendered.animatingClarity
                   THEN CancelFrame(rafPending, animationFrame)
                   ELSE rafPending
    IN  IF animatingClarity THEN NewHandle(cleaned) ELSE 0

\* React renders the component with the current state and runs the effects
\* whose dependencies changed, in declaration order
Render ==
    /\ rendered # Current
    /\ rendered' = Current
    /\ canvas' = IF DrawDeps(Current) # DrawDeps(rendered)
                 THEN CanvasSize(paperSize, dpi, innerHeight)
                 ELSE canvas
    /\ overlay' = IF DrawDeps(Current) # DrawDeps(rendered)
                  THEN DrawOverlay(canvas', cropSize, dpi, innerHeight)
                  ELSE overlay
    /\ shown' = IF DrawDeps(Current) # DrawDeps(rendered)
                THEN DrawImage(Current)
                ELSE shown
    /\ imageState' = IF ResetDeps(Current) # ResetDeps(rendered) /\ imageLoaded
                     THEN ResetImageState(imageState, imageLoaded, image, canvas', fitMode)
                     ELSE imageState
    /\ IF ClarityDeps(Current) # ClarityDeps(rendered)
       THEN /\ Cardinality(rafPending) < MaxFrames
            /\ rafPending' = ClarityEffectPending
            /\ animationFrame' = ClarityEffectHandle
       ELSE UNCHANGED <<rafPending, animationFrame>>
    /\ UNCHANGED <<loadVars, layoutVars>>
    /\ lastOp' = [op |-> "render",
                  a |-> <<ResetDeps(Current) # ResetDeps(rendered) /\ imageLoaded,
                          ClarityDeps(Current) # ClarityDeps(rendered),
                          image # rendered.image,
                          fitMode # rendered.fitMode>>]
    /\ UNCHANGED <<sessionVars, geometryVars, dragMoved, clarity, targetClarity,
                   animatingClarity, toneVars, cropOut, filterVars, nOps>>

-----------------------------------------------------------------------------
(* Session and viewport handlers *)

\* LoadImage that also puts the brightness and contrast back to 0
LoadImageResettingTone(w, h) ==
    /\ nOps < MaxOps
    /\ image.id < MaxLoads
    /\ image' = [id |-> image.id + 1, w |-> w, h |-> h]
    /\ imageLoaded' = TRUE
    /\ brightness' = 0
    /\ contrast' = 0
    /\ UNCHANGED <<loadVars, layoutVars>>
    /\ lastOp' = [op |-> "load", a |-> <<w, h>>]
    /\ nOps' = nOps + 1
    /\ UNCHANGED <<fitMode, dragMoved, imageState, geometryVars, canvas, easingVars,
                   rendered, drawnVars, cropOut, filterVars>>

\* loadImageFromURL: img.onload for a decoded image of size w x h
LoadImage(w, h) ==
    /\ nOps < MaxOps
    /\ image.id < MaxLoads
    /\ image' = [id |-> image.id + 1, w |-> w, h |-> h]
    /\ imageLoaded' = TRUE
    /\ UNCHANGED <<loadVars, layoutVars>>
    /\ lastOp' = [op |-> "load", a |-> <<w, h>>]
    /\ nOps' = nOps + 1
    /\ UNCHANGED <<fitMode, dragMoved, imageState, geometryVars, canvas, easingVars,
                   toneVars, rendered, drawnVars, cropOut, filterVars>>

\* LoadFailed that marks the session loaded all the same
LoadFailedMarksLoaded ==
    /\ nOps < MaxOps
    /\ imageLoaded' = TRUE
    /\ UNCHANGED <<loadVars, layoutVars>>
    /\ lastOp' = [op |-> "loadFailed", a |-> <<>>]
    /\ nOps' = nOps + 1
    /\ UNCHANGED <<image, fitMode, dragMoved, imageState, geometryVars, canvas,
                   easingVars, toneVars, rendered, drawnVars, cropOut, filterVars>>

\* loadImageFromURL: img.onerror (the bytes could not be decoded); a toast only
LoadFailed ==
    /\ nOps < MaxOps
    /\ UNCHANGED <<loadVars, layoutVars>>
    /\ lastOp' = [op |-> "loadFailed", a |-> <<>>]
    /\ nOps' = nOps + 1
    /\ UNCHANGED <<sessionVars, dragMoved, imageState, geometryVars, canvas,
                   easingVars, toneVars, rendered, drawnVars, cropOut, filterVars>>

\* the fit-mode Select: setFitMode(v)
SetFitMode(v) ==
    /\ nOps < MaxOps
    /\ v # fitMode
    /\ fitMode' = v
    /\ UNCHANGED <<loadVars, layoutVars>>
    /\ lastOp' = [op |-> "fitMode", a |-> <<v>>]
    /\ nOps' = nOps + 1
    /\ UNCHANGED <<image, imageLoaded, dragMoved, imageState, geometryVars, canvas,
                   easingVars, toneVars, rendered, drawnVars, cropOut, filterVars>>

\* the Reset button (disabled while no image is loaded): onClick =
\* resetImageState of the last render
ResetButton ==
    /\ nOps < MaxOps
    /\ rendered.imageLoaded
    /\ imageState' = ResetImageState(imageState, rendered.imageLoaded, rendered.image,
                                     canvas, rendered.fitMode)
    /\ UNCHANGED <<loadVars, layoutVars>>
    /\ lastOp' = [op |-> "resetButton", a |-> <<>>]
    /\ nOps' = nOps + 1
    /\ UNCHANGED <<sessionVars, dragMoved, geometryVars, canvas, easingVars, toneVars,
                   rendered, drawnVars, cropOut, filterVars>>

\* HandleMouseDown without its imageLoaded test
HandleMouseDownUnguarded(x, y) ==
    /\ nOps < MaxOps
    /\ dragMoved' = FALSE
    /\ imageState' = [imageState EXCEPT !.dragging = TRUE, !.lastX = x, !.lastY = y]
    /\ UNCHANGED <<loadVars, layoutVars>>
    /\ lastOp' = [op |-> "mouseDown", a |-> <<x, y>>]
    /\ nOps' = nOps + 1
    /\ UNCHANGED <<sessionVars, geometryVars, canvas, easingVars, toneVars, rendered,
                   drawnVars, cropOut, filterVars>>

\* onMouseDown of the canvas; an event the handler returns from at once is
\* recorded as "ignored"
HandleMouseDown(x, y) ==
    /\ nOps < MaxOps
    /\ IF ~rendered.imageLoaded
       THEN /\ UNCHANGED <<dragMoved, imageState>>
            /\ UNCHANGED <<loadVars, layoutVars>>
            /\ lastOp' = [op |-> "ignored", a |-> <<"mouseDown">>]
       ELSE /\ dragMoved' = FALSE
            /\ imageState' = [imageState EXCEPT !.dragging = TRUE, !.lastX = x,
                                                !.lastY = y]
            /\ UNCHANGED <<loadVars, layoutVars>>
            /\ lastOp' = [op |-> "mouseDown", a |-> <<x, y>>]
    /\ nOps' = nOps + 1
    /\ UNCHANGED <<sessionVars, geometryVars, canvas, easingVars, toneVars, rendered,
                   drawnVars, cropOut, filterVars>>

\* the window's mousemove listener
HandleMouseMove(x, y) ==
    /\ nOps < MaxOps
    /\ IF ~rendered.imageState.dragging
       THEN /\ UNCHANGED <<dragMoved, imageState>>
            /\ UNCHANGED <<loadVars, layoutVars>>
            /\ lastOp' = [op |-> "ignored", a |-> <<"mouseMove">>]
       ELSE LET dx == x - rendered.imageState.lastX
                dy == y - rendered.imageState.lastY
            IN  /\ dragMoved' = IF Abs(dx) > 1 \/ Abs(dy) > 1 THEN TRUE ELSE dragMoved
                /\ imageState' = [imageState EXCEPT !.offsetX = QAdd(@, QI(dx)),
                                                    !.offsetY = QAdd(@, QI(dy)),
                                                    !.lastX = x,
                                                    !.lastY = y]
                /\ UNCHANGED <<loadVars, layoutVars>>
                /\ lastOp' = [op |-> "mouseMove", a |-> <<x, y>>]
    /\ nOps' = nOps + 1
    /\ UNCHANGED <<sessionVars, geometryVars, canvas, easingVars, toneVars, rendered,
                   drawnVars, cropOut, filterVars>>

HandleMouseUp ==
    /\ nOps < MaxOps
    /\ imageState' = [imageState EXCEPT !.dragging = FALSE]
    /\ UNCHANGED <<loadVars, layoutVars>>
    /\ lastOp' = [op |-> "mouseUp", a |-> <<>>]
    /\ nOps' = nOps + 1
    /\ UNCHANGED <<sessionVars, dragMoved, geometryVars, canvas, easingVars, toneVars,
                   rendered, drawnVars, cropOut, filterVars>>

\* onWheel of the canvas
HandleWheel(mx, my, zoomFactor) ==
    /\ nOps < MaxOps
    /\ IF ~rendered.imageLoaded
       THEN /\ UNCHANGED imageState
            /\ UNCHANGED <<loadVars, layoutVars>>
            /\ lastOp' = [op |-> "ignored", a |-> <<"wheel">>]
       ELSE LET z == ZoomAt(rendered.imageState, mx, my, zoomFactor)
            IN  /\ imageState' = [imageState EXCEPT !.scale = z.scale,
                                                    !.offsetX = z.offsetX,
                                                    !.offsetY = z.offsetY]
                /\ UNCHANGED <<loadVars, layoutVars>>
                /\ lastOp' = [op |-> "wheel", a |-> <<mx, my, zoomFactor>>]
    /\ nOps' = nOps + 1
    /\ UNCHANGED <<sessionVars, dragMoved, geometryVars, canvas, easingVars, toneVars,
                   rendered, drawnVars, cropOut, filterVars>>

\* the window's keydown listener
HandleKeyDown(key) ==
    /\ nOps < MaxOps
    /\ IF ~rendered.imageLoaded
       THEN /\ UNCHANGED imageState
            /\ UNCHANGED <<loadVars, layoutVars>>
            /\ lastOp' = [op |-> "ignored", a |-> <<"keyDown">>]
       ELSE /\ imageState' = Nudge(imageState, key)
            /\ UNCHANGED <<loadVars, layoutVars>>
            /\ lastOp' = [op |-> "keyDown", a |-> <<key>>]
    /\ nOps' = nOps + 1
    /\ UNCHANGED <<sessionVars, dragMoved, geometryVars, canvas, easingVars, toneVars,
                   rendered, drawnVars, cropOut, filterVars>>

\* the zoom Slider (disabled while no image is loaded)
HandleZoomChange(value) ==
    /\ nOps < MaxOps
    /\ rendered.imageLoaded
    /\ LET z == SetScale(rendered.imageState, canvas, value)
       IN  imageState' = [imageState EXCEPT !.scale = z.scale,
                                            !.offsetX = z.offsetX,
                                            !.offsetY = z.offsetY]
    /\ UNCHANGED <<loadVars, layoutVars>>
    /\ lastOp' = [op |-> "zoomChange", a |-> <<value>>]
    /\ nOps' = nOps + 1
    /\ UNCHANGED <<sessionVars, dragMoved, geometryVars, canvas, easingVars, toneVars,
                   rendered, drawnVars, cropOut, filterVars>>

-----------------------------------------------------------------------------
(* Brightness and contrast handlers *)

\* the brightness Slider (disabled while no image is loaded): setBrightness(v[0])
SetBrightness(v) ==
    /\ nOps < MaxOps
    /\ rendered.imageLoaded
    /\ v # rendered.brightness
    /\ brightness' = v
    /\ UNCHANGED <<loadVars, layoutVars>>
    /\ lastOp' = [op |-> "brightness", a |-> <<v>>]
    /\ nOps' = nOps + 1
    /\ UNCHANGED <<sessionVars, dragMoved, imageState, geometryVars, canvas,
                   easingVars, contrast, rendered, drawnVars, cropOut, filterVars>>

\* the contrast Slider (disabled while no image is loaded): setContrast(v[0])
SetContrast(v) ==
    /\ nOps < MaxOps
    /\ rendered.imageLoaded
    /\ v # rendered.contrast
    /\ contrast' = v
    /\ UNCHANGED <<loadVars, layoutVars>>
    /\ lastOp' = [op |-> "contrast", a |-> <<v>>]
    /\ nOps' = nOps + 1
    /\ UNCHANGED <<sessionVars, dragMoved, imageState, geometryVars, canvas,
                   easingVars, brightness, rendered, drawnVars, cropOut, filterVars>>

-----------------------------------------------------------------------------
(* Clarity easing handlers *)

\* the clarity Slider: onValueChange, which the Slider calls with a value other
\* than the one it was rendered with
HandleClarityChange(v) ==
    /\ nOps < MaxOps
    /\ rendered.imageLoaded
    /\ v # rendered.targetClarity
    /\ targetClarity' = v
    /\ animatingClarity' = TRUE
    /\ UNCHANGED <<loadVars, layoutVars>>
    /\ lastOp' = [op |-> "clarityChange", a |-> <<v, clarity>>]
    /\ nOps' = nOps + 1
    /\ UNCHANGED <<sessionVars, dragMoved, imageState, geometryVars, canvas, clarity,
                   rafPending, animationFrame, toneVars, rendered, drawnVars, cropOut,
                   filterVars>>

\* a pending animation-frame callback fires: animate of the effect run that
\* requested it, with the targetClarity that run captured
Frame(f) ==
    /\ f \in rafPending
    /\ LET e == EaseStep(clarity, f.target)
           rest == rafPending \ {f}
           h == NewHandle(rest)
       IN  /\ IF e.stop THEN TRUE ELSE clarity[2] < 5 ^ MaxExp
           /\ clarity' = e.clarity
           /\ animatingClarity' = IF e.stop THEN FALSE ELSE animatingClarity
           /\ rafPending' = rest \cup {[handle |-> h, target |-> f.target]}
           /\ animationFrame' = IF f.handle = animationFrame THEN h ELSE animationFrame
    /\ UNCHANGED <<loadVars, layoutVars>>
    /\ lastOp' = [op |-> "frame", a |-> <<f.target, clarity>>]
    /\ UNCHANGED <<sessionVars, dragMoved, imageState, geometryVars, canvas,
                   targetClarity, toneVars, rendered, drawnVars, cropOut, filterVars,
                   nOps>>

-----------------------------------------------------------------------------
(* The state after the component has mounted *)

NoRaster == [width |-> 0, height |-> 0, data |-> <<>>]

\* useState's initial imageState
InitialImageState ==
    [scale |-> QI(1), offsetX |-> QI(0), offsetY |-> QI(0),
     dragging |-> FALSE, lastX |-> 0, lastY |-> 0]

\* no load has been started
InitLoads == loads = <<>>

\* PrintLayoutEditor: the useState initial values
InitLayout ==
    /\ pageSize = "4x6"
    /\ photos = <<>>
    /\ selectedPhotoIds = {}
    /\ dragging = FALSE
    /\ dragOffset = [x |-> QI(0), y |-> QI(0)]
    /\ photoSeq = 0

InitSession ==
    /\ image = NoImage
    /\ imageLoaded = FALSE
    /\ dragMoved = FALSE
    /\ fitMode = "fit"
    /\ imageState = InitialImageState
    /\ paperSize = [w |-> QI(4), h |-> QI(6)]
    /\ cropSize = [w |-> <<113, 100>>, h |-> <<137, 100>>]
    /\ cropInput = [w |-> NumberText(<<113, 100>>), h |-> NumberText(<<137, 100>>)]
    /\ customPaper = [w |-> NumberText(QI(4)), h |-> NumberText(QI(6))]
    /\ paperPreset = "4x6"
    /\ dpi = 300
    /\ innerHeight \in InnerHeights
    /\ canvas = CanvasSize(paperSize, dpi, innerHeight)
    /\ overlay = DrawOverlay(canvas, cropSize, dpi, innerHeight)
    /\ shown = Blank
    /\ cropOut = NoCrop
    /\ InitLoads
    /\ InitLayout
    /\ lastOp = [op |-> "mount", a |-> <<>>]
    /\ nOps = 0

InitEasing ==
    /\ clarity = QI(0)
    /\ targetClarity = 0
    /\ animatingClarity = FALSE
    /\ rafPending = {}
    /\ animationFrame = 0

InitTone ==
    /\ brightness = 0
    /\ contrast = 0

InitFilter ==
    /\ srcData = NoRaster
    /\ outData = NoRaster

Init ==
    /\ InitSession
    /\ InitEasing
    /\ InitTone
    /\ InitFilter
    /\ rendered = Current

Next ==
    \/ \E s \in ImageSizes : LoadImage(s[1], s[2])
    \/ \E v \in FitModes : SetFitMode(v)
    \/ ResetButton
    \/ \E p \in Points : HandleMouseDown(p[1], p[2])
    \/ \E p \in Points : HandleMouseMove(p[1], p[2])
    \/ HandleMouseUp
    \/ \E p \in Points, f \in ZoomFactors : HandleWheel(p[1], p[2], f)
    \/ \E k \in Keys : HandleKeyDown(k)
    \/ \E v \in SliderScales : HandleZoomChange(v)
    \/ Render

Spec == Init /\ [][Next]_vars

-----------------------------------------------------------------------------
(* Image loads in flight: FileReader, then Image decode *)

\* the loads that have run to their end (img.onload or img.onerror)
Completed(ls) == {i \in 1..Len(ls) : ls[i].stage \in {"loaded", "failed"}}

\* handleFileSelect / handlePaste / handleDrop with an image file of w x h:
\* a new FileReader starts reading; nothing of an earlier load is cancelled
StartLoad(w, h) ==
    /\ nOps < MaxOps
    /\ Len(loads) < MaxLoads
    /\ loads' = Append(loads, [w |-> w, h |-> h, stage |-> "reading",
                               completedAtStart |-> Cardinality(Completed(loads))])
    /\ UNCHANGED layoutVars
    /\ lastOp' = [op |-> "startLoad", a |-> <<w, h>>]
    /\ nOps' = nOps + 1
    /\ UNCHANGED indexVars

\* reader.onload of load i: loadImageFromURL creates an Image and sets its src
ReaderLoaded(i) ==
    /\ loads[i].stage = "reading"
    /\ loads' = [loads EXCEPT ![i].stage = "decoding"]
    /\ UNCHANGED layoutVars
    /\ lastOp' = [op |-> "readerLoaded", a |-> <<i>>]
    /\ UNCHANGED <<indexVars, nOps>>

\* img.onload of load i: setImage(img); setImageLoaded(true)
ImageDecoded(i) ==
    /\ loads[i].stage = "decoding"
    /\ loads' = [loads EXCEPT ![i].stage = "loaded"]
    /\ image' = [id |-> i, w |-> loads[i].w, h |-> loads[i].h]
    /\ imageLoaded' = TRUE
    /\ UNCHANGED layoutVars
    /\ lastOp' = [op |-> "load", a |-> <<loads[i].w, loads[i].h>>]
    /\ UNCHANGED <<fitMode, dragMoved, imageState, geometryVars, canvas, easingVars,
                   toneVars, rendered, drawnVars, cropOut, filterVars, nOps>>

\* img.onerror of load i: a toast only
ImageError(i) ==
    /\ loads[i].stage = "decoding"
    /\ loads' = [loads EXCEPT ![i].stage = "failed"]
    /\ UNCHANGED layoutVars
    /\ lastOp' = [op |-> "loadFailed", a |-> <<i>>]
    /\ UNCHANGED <<indexVars, nOps>>

LoadInit == Init

LoadNext ==
    \/ \E s \in ImageSizes : StartLoad(s[1], s[2])
    \/ \E i \in 1..Len(loads) : ReaderLoaded(i)
    \/ \E i \in 1..Len(loads) : ImageDecoded(i)
    \/ \E i \in 1..Len(loads) : ImageError(i)
    \/ Render

LoadSpec == LoadInit /\ [][LoadNext]_vars

-----------------------------------------------------------------------------
(* The easing controller on a loaded session *)

\* a session with one image loaded, rendered and initialized
InitLoaded ==
    /\ image = [id |-> 1, w |-> 1000, h |-> 1000]
    /\ imageLoaded = TRUE
    /\ dragMoved = FALSE
    /\ fitMode = "fit"
    /\ paperSize = [w |-> QI(4), h |-> QI(6)]
    /\ cropSize = [w |-> <<113, 100>>, h |-> <<137, 100>>]
    /\ cropInput = [w |-> NumberText(<<113, 100>>), h |-> NumberText(<<137, 100>>)]
    /\ customPaper = [w |-> NumberText(QI(4)), h |-> NumberText(QI(6))]
    /\ paperPreset = "4x6"
    /\ dpi = 300
    /\ innerHeight \in InnerHeights
    /\ canvas = CanvasSize(paperSize, dpi, innerHeight)
    /\ imageState = ResetImageState(InitialImageState, imageLoaded, image, canvas, fitMode)
    /\ overlay = DrawOverlay(canvas, cropSize, dpi, innerHeight)
    /\ cropOut = NoCrop
    /\ InitLoads
    /\ InitLayout
    /\ lastOp = [op |-> "render", a |-> <<FALSE, FALSE, FALSE, FALSE>>]
    /\ nOps = 0

EasingInit ==
    /\ InitLoaded
    /\ InitEasing
    /\ InitTone
    /\ InitFilter
    /\ rendered = Current
    /\ shown = DrawImage(rendered)

EasingNext ==
    \/ \E v \in Targets : HandleClarityChange(v)
    \/ \E f \in rafPending : Frame(f)
    \/ Render

EasingSpec == EasingInit /\ [][EasingNext]_vars

-----------------------------------------------------------------------------
(* The filter pipeline on rasters read back from a canvas *)

\* RGBA pixels the rasters are made of
Palette ==
    {<<0, 0, 0, 255>>, <<100, 100, 100, 255>>, <<255, 255, 255, 255>>,
     <<200, 100, 1, 128>>, <<64, 128, 254, 255>>, <<100, 100, 100, 0>>}
\* raster sizes <<width, height>>
RasterSizes == {<<1, 1>>, <<3, 2>>, <<3, 3>>}
\* values of the clarity state: a target the loop has reached, a value part-way
FilterClarities == {QI(0), QI(40), QI(-50), QI(10)}
FilterBrightnesses == {0, 30, -100}
FilterContrasts == {0, 100, -40}

\* a w x h raster in which pixel (x, y) is p when x + y is even and q otherwise
Checker(w, h, p, q) ==
    [width |-> w, height |-> h,
     data |-> [i \in 1..(w * h * 4) |->
                  LET pix == (i - 1) \div 4
                      x == pix % w
                      y == pix \div w
                  IN  IF (x + y) % 2 = 0 THEN p[((i - 1) % 4) + 1]
                      ELSE q[((i - 1) % 4) + 1]]]

Rasters == {Checker(sz[1], sz[2], p, q) : sz \in RasterSizes, p \in Palette, q \in Palette}

FilterInit ==
    /\ InitLoaded
    /\ clarity \in FilterClarities
    /\ targetClarity = clarity[1]
    /\ animatingClarity = FALSE
    /\ rafPending = {}
    /\ animationFrame = 0
    /\ brightness \in FilterBrightnesses
    /\ contrast \in FilterContrasts
    /\ srcData \in Rasters
    /\ outData = NoRaster
    /\ rendered = Current
    /\ shown = DrawImage(rendered)

\* one filter pass of drawCanvas or getCroppedCanvas over the raster read back
\* from the canvas, with the parameters of the last render
FilterPass ==
    /\ outData = NoRaster
    /\ outData' = ApplyImageFilters(srcData, rendered.clarity, rendered.brightness,
                                    rendered.contrast)
    /\ UNCHANGED <<loadVars, layoutVars>>
    /\ lastOp' = [op |-> "filter", a |-> <<>>]
    /\ UNCHANGED <<sessionVars, dragMoved, imageState, geometryVars, canvas, easingVars,
                   toneVars, rendered, drawnVars, cropOut, srcData, nOps>>

FilterNext == FilterPass

FilterSpec == FilterInit /\ [][FilterNext]_vars

-----------------------------------------------------------------------------
(* The pixels of the preview and of the export around the image *)

Transparent == <<0, 0, 0, 0>>

White == <<255, 255, 255, 255>>

\* what tempCtx.drawImage leaves on the cleared temporary canvas, or
\* outCtx.drawImage adds to the export canvas: the transformed image covers
\* the pixels where x + y is even with the pixel p (fully, or partly at an
\* edge when p is translucent) and covers no other pixel
Layers == {Checker(sz[1], sz[2], p, Transparent) : sz \in RasterSizes, p \in Palette}

\* one byte (ch = 0..3) of the source-over composition of the pixel src on the
\* pixel dst; exact where src is opaque or transparent, to the nearest byte in
\* between
SourceOver(dst, src, ch) ==
    LET as == Q(src[4], 255)
        ad == Q(dst[4], 255)
        ao == QAdd(as, QMul(ad, QSub(QI(1), as)))
    IN  IF ch = 3 THEN ToUint8Clamped(QMul(ao, QI(255)))
        ELSE IF ao = QI(0) THEN 0
        ELSE ToUint8Clamped(
                 QDiv(QAdd(QMul(QI(src[ch + 1]), as),
                           QMul(QMul(QI(dst[ch + 1]), ad), QSub(QI(1), as))),
                      ao))

\* drawImage of the layer on a canvas filled with the pixel fill
DrawOver(fill, layer) ==
    [layer EXCEPT !.data =
        [i \in 1..Len(layer.data) |->
            LET first == ((i - 1) \div 4) * 4
            IN  SourceOver(fill, SubSeq(layer.data, first + 1, first + 4),
                           (i - 1) % 4)]]

\* the pixel p (0-based) of a raster
PixelAt(img, p) == SubSeq(img.data, p * 4 + 1, p * 4 + 4)

CompositeInit ==
    /\ InitLoaded
    /\ clarity \in FilterClarities
    /\ targetClarity = clarity[1]
    /\ animatingClarity = FALSE
    /\ rafPending = {}
    /\ animationFrame = 0
    /\ brightness \in FilterBrightnesses
    /\ contrast \in FilterContrasts
    /\ srcData \in Layers
    /\ outData = NoRaster
    /\ rendered = Current
    /\ shown = DrawImage(rendered)

\* drawCanvas up to the overlay: the canvas is filled white, the image is
\* drawn on a cleared temporary canvas of the same size, and putImageData
\* stores that raster, filtered when a parameter is not 0, over the whole
\* canvas, replacing every pixel
PreviewRaster ==
    /\ outData = NoRaster
    /\ outData' = IF rendered.clarity # QI(0) \/ rendered.brightness # 0
                      \/ rendered.contrast # 0
                   THEN ApplyImageFilters(srcData, rendered.clarity,
                                          rendered.brightness, rendered.contrast)
                   ELSE srcData
    /\ UNCHANGED <<loadVars, layoutVars>>
    /\ lastOp' = [op |-> "previewPixels", a |-> <<>>]
    /\ UNCHANGED <<sessionVars, dragMoved, imageState, geometryVars, canvas, easingVars,
                   toneVars, rendered, drawnVars, cropOut, srcData, nOps>>

\* ExportRaster that draws on the cleared canvas, without the white fill
ExportRasterWithoutFill ==
    /\ outData = NoRaster
    /\ outData' = LET drawn == DrawOver(Transparent, srcData)
                   IN  IF rendered.clarity # QI(0) \/ rendered.brightness # 0
                          \/ rendered.contrast # 0
                       THEN ApplyImageFilters(drawn, rendered.clarity,
                                              rendered.brightness, rendered.contrast)
                       ELSE drawn
    /\ UNCHANGED <<loadVars, layoutVars>>
    /\ lastOp' = [op |-> "exportPixels", a |-> <<>>]
    /\ UNCHANGED <<sessionVars, dragMoved, imageState, geometryVars, canvas, easingVars,
                   toneVars, rendered, drawnVars, cropOut, srcData, nOps>>

\* getCroppedCanvas: the export canvas is filled white, the image is drawn on
\* it, and the raster is read back, filtered and stored when a parameter is
\* not 0
ExportRaster ==
    /\ outData = NoRaster
    /\ outData' = LET drawn == DrawOver(White, srcData)
                   IN  IF rendered.clarity # QI(0) \/ rendered.brightness # 0
                          \/ rendered.contrast # 0
                       THEN ApplyImageFilters(drawn, rendered.clarity,
                                              rendered.brightness, rendered.contrast)
                       ELSE drawn
    /\ UNCHANGED <<loadVars, layoutVars>>
    /\ lastOp' = [op |-> "exportPixels", a |-> <<>>]
    /\ UNCHANGED <<sessionVars, dragMoved, imageState, geometryVars, canvas, easingVars,
                   toneVars, rendered, drawnVars, cropOut, srcData, nOps>>

CompositeNext ==
    \/ PreviewRaster
    \/ ExportRaster

CompositeSpec == CompositeInit /\ [][CompositeNext]_vars

-----------------------------------------------------------------------------
(* Paper, crop size and export handlers *)

\* the preset buttons: handlePresetClick(w, h)
Presets ==
    {<<[num |-> QI(35), suffix |-> "mm"], [num |-> QI(45), suffix |-> "mm"]>>,
     <<[num |-> QI(30), suffix |-> "mm"], [num |-> QI(40), suffix |-> "mm"]>>,
     <<[num |-> QI(32), suffix |-> "mm"], [num |-> QI(40), suffix |-> "mm"]>>,
     <<[num |-> <<113, 100>>, suffix |-> "in"], [num |-> <<137, 100>>, suffix |-> "in"]>>,
     <<[num |-> QI(2), suffix |-> "in"], [num |-> QI(2), suffix |-> "in"]>>}
\* the paper Select
PaperPresets == {"4x6", "a4", "custom"}

HandlePresetClick(w, h) ==
    /\ nOps < MaxOps
    /\ cropInput' = [w |-> ToFixed2(ParseValue(w)), h |-> ToFixed2(ParseValue(h))]
    /\ cropSize' = [w |-> ParseValue(w), h |-> ParseValue(h)]
    /\ UNCHANGED <<loadVars, layoutVars>>
    /\ lastOp' = [op |-> "preset", a |-> <<w, h, cropSize>>]
    /\ nOps' = nOps + 1
    /\ UNCHANGED <<sessionVars, dragMoved, imageState, paperSize, customPaper,
                   paperPreset, dpi, innerHeight, canvas, easingVars, toneVars,
                   rendered, drawnVars, cropOut, filterVars>>

HandlePaperPresetChange(value) ==
    /\ nOps < MaxOps
    /\ value # rendered.paperPreset
    /\ paperPreset' = value
    /\ paperSize' = IF value = "4x6" THEN [w |-> QI(4), h |-> QI(6)]
                    ELSE IF value = "a4" THEN [w |-> <<827, 100>>, h |-> <<1169, 100>>]
                    ELSE paperSize
    /\ UNCHANGED <<loadVars, layoutVars>>
    /\ lastOp' = [op |-> "paperPreset", a |-> <<value>>]
    /\ nOps' = nOps + 1
    /\ UNCHANGED <<sessionVars, dragMoved, imageState, cropSize, cropInput,
                   customPaper, dpi, innerHeight, canvas, easingVars, toneVars, rendered, drawnVars, cropOut,
                   filterVars>>

\* the DPI Select: setDpi(parseInt(v))
SetDpi(v) ==
    /\ nOps < MaxOps
    /\ v # dpi
    /\ dpi' = v
    /\ UNCHANGED <<loadVars, layoutVars>>
    /\ lastOp' = [op |-> "dpi", a |-> <<v>>]
    /\ nOps' = nOps + 1
    /\ UNCHANGED <<sessionVars, dragMoved, imageState, paperSize, cropSize,
                   cropInput, customPaper, paperPreset, innerHeight, canvas, easingVars, toneVars, rendered, drawnVars,
                   cropOut, filterVars>>

\* the window's resize listener: updateCanvasSize and drawCanvas of the last render
HandleResize(ih) ==
    /\ nOps < MaxOps
    /\ ih # innerHeight
    /\ innerHeight' = ih
    /\ canvas' = CanvasSize(rendered.paperSize, rendered.dpi, ih)
    /\ overlay' = DrawOverlay(canvas', rendered.cropSize, rendered.dpi, ih)
    /\ shown' = DrawImage(rendered)
    /\ UNCHANGED <<loadVars, layoutVars>>
    /\ lastOp' = [op |-> "resize", a |-> <<ih>>]
    /\ nOps' = nOps + 1
    /\ UNCHANGED <<sessionVars, dragMoved, imageState, paperSize, cropSize,
                   cropInput, customPaper, paperPreset, dpi, easingVars, toneVars,
                   rendered, cropOut, filterVars>>

\* GetCroppedCanvas that leaves the session as it was before the first load
GetCroppedCanvasClearingSession ==
    /\ nOps < MaxOps
    /\ rendered.imageLoaded
    /\ rendered.image # NoImage
    /\ cropOut' = CroppedCanvas(rendered, canvas, innerHeight)
    /\ imageLoaded' = FALSE
    /\ UNCHANGED <<loadVars, layoutVars>>
    /\ lastOp' = [op |-> "export", a |-> <<>>]
    /\ nOps' = nOps + 1
    /\ UNCHANGED <<image, fitMode, dragMoved, imageState, geometryVars, canvas,
                   easingVars, toneVars, rendered, drawnVars, filterVars>>

\* getCroppedCanvas (from handleSaveCrop or handleExport): the export rectangle
GetCroppedCanvas ==
    /\ nOps < MaxOps
    /\ rendered.imageLoaded
    /\ rendered.image # NoImage
    /\ cropOut' = CroppedCanvas(rendered, canvas, innerHeight)
    /\ UNCHANGED <<loadVars, layoutVars>>
    /\ lastOp' = [op |-> "export", a |-> <<>>]
    /\ nOps' = nOps + 1
    /\ UNCHANGED <<sessionVars, dragMoved, imageState, geometryVars, canvas, easingVars,
                   toneVars, rendered, drawnVars, filterVars>>

\* texts a number field can hold: "", "0", "-2", "2.5"
CropTexts == {NumberText(NaN), NumberText(QI(0)), NumberText(QI(-2)), NumberText(<<5, 2>>)}
\* "", "0", "0.001", "5"
PaperTexts == {NumberText(NaN), NumberText(QI(0)), NumberText(<<1, 1000>>), NumberText(QI(5))}
Fields == {"w", "h"}

\* onChange of a crop size field: setCropInput(prev => ({...prev, [field]: text}))
SetCropInput(field, text) ==
    /\ nOps < MaxOps
    /\ text # rendered.cropInput[field]
    /\ cropInput' = [cropInput EXCEPT ![field] = text]
    /\ UNCHANGED <<loadVars, layoutVars>>
    /\ lastOp' = [op |-> "cropInput", a |-> <<field, text>>]
    /\ nOps' = nOps + 1
    /\ UNCHANGED <<sessionVars, dragMoved, imageState, paperSize, cropSize,
                   customPaper, paperPreset, dpi, innerHeight, canvas, easingVars,
                   toneVars, rendered, drawnVars, cropOut, filterVars>>

\* onChange of a custom paper field (shown while the paper preset is "custom")
SetCustomPaper(field, text) ==
    /\ nOps < MaxOps
    /\ rendered.paperPreset = "custom"
    /\ text # rendered.customPaper[field]
    /\ customPaper' = [customPaper EXCEPT ![field] = text]
    /\ UNCHANGED <<loadVars, layoutVars>>
    /\ lastOp' = [op |-> "customPaper", a |-> <<field, text>>]
    /\ nOps' = nOps + 1
    /\ UNCHANGED <<sessionVars, dragMoved, imageState, paperSize, cropSize,
                   cropInput, paperPreset, dpi, innerHeight, canvas, easingVars,
                   toneVars, rendered, drawnVars, cropOut, filterVars>>

\* applyCropSize: the Apply button of the crop size fields
ApplyCropSize ==
    /\ nOps < MaxOps
    /\ cropSize' = [w |-> OrDefault(ParseFloat(rendered.cropInput.w), <<113, 100>>),
                    h |-> OrDefault(ParseFloat(rendered.cropInput.h), <<137, 100>>)]
    /\ UNCHANGED <<loadVars, layoutVars>>
    /\ lastOp' = [op |-> "applyCropSize",
                  a |-> <<rendered.cropInput.w, rendered.cropInput.h, cropSize>>]
    /\ nOps' = nOps + 1
    /\ UNCHANGED <<sessionVars, dragMoved, imageState, paperSize, cropInput,
                   customPaper, paperPreset, dpi, innerHeight, canvas, easingVars,
                   toneVars, rendered, drawnVars, cropOut, filterVars>>

\* applyCustomPaper: the Apply button of the custom paper fields
ApplyCustomPaper ==
    /\ nOps < MaxOps
    /\ rendered.paperPreset = "custom"
    /\ paperSize' = [w |-> OrDefault(ParseFloat(rendered.customPaper.w), QI(4)),
                     h |-> OrDefault(ParseFloat(rendered.customPaper.h), QI(6))]
    /\ UNCHANGED <<loadVars, layoutVars>>
    /\ lastOp' = [op |-> "applyCustomPaper",
                  a |-> <<rendered.customPaper.w, rendered.customPaper.h, paperSize>>]
    /\ nOps' = nOps + 1
    /\ UNCHANGED <<sessionVars, dragMoved, imageState, cropSize, cropInput,
                   customPaper, paperPreset, dpi, innerHeight, canvas, easingVars,
                   toneVars, rendered, drawnVars, cropOut, filterVars>>

CropInit ==
    /\ InitLoaded
    /\ InitEasing
    /\ InitTone
    /\ InitFilter
    /\ rendered = Current
    /\ shown = DrawImage(rendered)

CropNext ==
    \/ \E p \in Presets : HandlePresetClick(p[1], p[2])
    \/ \E v \in PaperPresets : HandlePaperPresetChange(v)
    \/ \E v \in Dpis : SetDpi(v)
    \/ \E ih \in ResizeHeights : HandleResize(ih)
    \/ GetCroppedCanvas
    \/ Render

CropSpec == CropInit /\ [][CropNext]_vars

-----------------------------------------------------------------------------
(* The paper and crop size fields on a loaded session *)

DimensionInit == CropInit

DimensionNext ==
    \/ \E f \in Fields, t \in CropTexts : SetCropInput(f, t)
    \/ ApplyCropSize
    \/ \E v \in PaperPresets : HandlePaperPresetChange(v)
    \/ \E f \in Fields, t \in PaperTexts : SetCustomPaper(f, t)
    \/ ApplyCustomPaper
    \/ \E v \in FitModes : SetFitMode(v)
    \/ Render

DimensionSpec == DimensionInit /\ [][DimensionNext]_vars

-----------------------------------------------------------------------------
(* Viewport properties *)

\* C1: in every reachable state the viewport scale lies in [0.05, 5]
\* (the claim as stated; resetImageState and handleZoomChange do not clamp)
ScaleAlwaysInRange ==
    /\ QLe(<<1, 20>>, imageState.scale)
    /\ QLe(imageState.scale, QI(5))

\* resetImageState has just run (from the reset effect or the Reset button)
Initialized ==
    \/ lastOp.op = "resetButton"
    \/ lastOp.op = "render" /\ lastOp.a[1]

\* C2: one wheel zoom from the state (s, o) the handler reads, with anchor a
\* and zoom factor f, yields s' = clamp(s * f, 0.05, 5) and
\* o' = a - ((a - o) / s) * s', and the image point under the anchor is the
\* same before and after, (a - o') / s' = (a - o) / s, on both axes.
ZoomPreservesAnchor ==
    lastOp.op = "wheel" =>
        LET s == rendered.imageState.scale
            ox == rendered.imageState.offsetX
            oy == rendered.imageState.offsetY
            ax == QI(lastOp.a[1])
            ay == QI(lastOp.a[2])
            f == lastOp.a[3]
            raw == QMul(s, f)
            clamped == IF QLt(raw, <<1, 20>>) THEN <<1, 20>>
                       ELSE IF QLt(QI(5), raw) THEN QI(5) ELSE raw
        IN  /\ imageState.scale = clamped
            /\ imageState.offsetX = QSub(ax, QMul(QDiv(QSub(ax, ox), s), clamped))
            /\ imageState.offsetY = QSub(ay, QMul(QDiv(QSub(ay, oy), s), clamped))
            /\ QDiv(QSub(ax, imageState.offsetX), imageState.scale)
                 = QDiv(QSub(ax, ox), s)
            /\ QDiv(QSub(ay, imageState.offsetY), imageState.scale)
                 = QDiv(QSub(ay, oy), s)

\* C2 witness: a wheel zoom off-centre whose scale was cut to the upper bound
ZoomClampedWitness ==
    /\ lastOp.op = "wheel"
    /\ lastOp.a[1] = 300
    /\ QLt(QI(5), QMul(rendered.imageState.scale, lastOp.a[3]))
    /\ imageState.scale = QI(5)
    /\ imageState.offsetX # rendered.imageState.offsetX

\* C3: after initialize the scale is min(cw/iw, ch/ih) in Fit mode and
\* max(cw/iw, ch/ih) in Fill mode, 2 * offset + imageDim * scale = canvasDim on
\* each axis, the offset on the constraining axis is 0, and a 1000x1000 image
\* on a 600x900 canvas in Fit mode gets scale 0.6, offsetX 0, offsetY 150.
InitializeFitsAndCenters ==
    Initialized =>
        LET cw == QI(canvas.width)
            ch == QI(canvas.height)
            iw == QI(rendered.image.w)
            ih == QI(rendered.image.h)
            sx == QDiv(cw, iw)
            sy == QDiv(ch, ih)
            sc == imageState.scale
        IN  /\ sc \in {sx, sy}
            /\ rendered.fitMode = "fit" => QLe(sc, sx) /\ QLe(sc, sy)
            /\ rendered.fitMode = "fill" => QLe(sx, sc) /\ QLe(sy, sc)
            /\ QAdd(QMul(QI(2), imageState.offsetX), QMul(iw, sc)) = cw
            /\ QAdd(QMul(QI(2), imageState.offsetY), QMul(ih, sc)) = ch
            /\ sc = sx => imageState.offsetX = QI(0)
            /\ sc = sy => imageState.offsetY = QI(0)
            /\ LET example == ResetImageState(imageState, TRUE,
                                  [id |-> 1, w |-> 1000, h |-> 1000],
                                  [width |-> 600, height |-> 900], "fit")
               IN  /\ example.scale = <<3, 5>>
                   /\ example.offsetX = QI(0)
                   /\ example.offsetY = QI(150)

\* C3 witness: the 1000x1000 image initialized on the 400x600 canvas in Fit mode
InitializeScenarioWitness ==
    /\ Initialized
    /\ rendered.image.w = 1000 /\ rendered.image.h = 1000
    /\ canvas.width = 400 /\ canvas.height = 600
    /\ rendered.fitMode = "fit"
    /\ imageState.scale = <<2, 5>>
    /\ imageState.offsetY = QI(100)

\* C25: a drag move adds the handler's delta (dx, dy), the pointer position
\* less the last position the handler holds, to the offset; an arrow key adds
\* or subtracts 2 on one axis and leaves the other axis alone; any other key
\* changes nothing; the scale stays as it was in all these cases
PanChangesOffsetsOnly ==
    /\ [][lastOp'.op = "mouseMove" =>
            /\ imageState'.scale = imageState.scale
            /\ imageState'.dragging = imageState.dragging
            /\ imageState'.offsetX
                 = QAdd(imageState.offsetX, QI(lastOp'.a[1] - rendered.imageState.lastX))
            /\ imageState'.offsetY
                 = QAdd(imageState.offsetY, QI(lastOp'.a[2] - rendered.imageState.lastY))]_vars
    /\ [][lastOp'.op = "keyDown" =>
            LET key == lastOp'.a[1]
                stepX == IF key = "ArrowLeft" THEN -2 ELSE IF key = "ArrowRight" THEN 2 ELSE 0
                stepY == IF key = "ArrowUp" THEN -2 ELSE IF key = "ArrowDown" THEN 2 ELSE 0
            IN  imageState' = [imageState EXCEPT !.offsetX = QAdd(@, QI(stepX)),
                                                 !.offsetY = QAdd(@, QI(stepY))]]_vars
    /\ [][lastOp'.op \in {"mouseMove", "keyDown"} =>
            UNCHANGED <<sessionVars, geometryVars, canvas>>]_vars

\* C25 witness: a drag from (300, 450) to (0, 0) has put the top-left corner of
\* the 1000x1000 image, fitted at scale 2/5 with offset (0, 100), outside the
\* canvas at (-300, -350)
PannedOutsideWitness ==
    /\ lastOp.op = "mouseMove"
    /\ image.w = 1000
    /\ imageState.scale = <<2, 5>>
    /\ imageState.offsetX = QI(-300)
    /\ imageState.offsetY = QI(-350)

\* C26: a drag moves the image by the pointer displacement under every
\* interleaving of mouse moves and renders.  The state holds the position of
\* the previous pointer event of the drag in lastX, lastY, so the offset at
\* mouse-up is the offset at mouse-down plus (last position - p0) exactly when
\* every move adds the step from that previous position to the new one; a
\* move that adds anything else counts a delta twice or loses one (the claim
\* as stated)
DragFollowsPointer ==
    [][lastOp'.op = "mouseMove" =>
          /\ imageState'.offsetX
               = QAdd(imageState.offsetX, QI(lastOp'.a[1] - imageState.lastX))
          /\ imageState'.offsetY
               = QAdd(imageState.offsetY, QI(lastOp'.a[2] - imageState.lastY))]_vars

-----------------------------------------------------------------------------
(* Easing properties *)

\* C8: a tick of a callback holding target t sets current to
\* current + (t - current) * 0.2 when |t - current| >= 0.5 and to t when
\* |t - current| < 0.5 (target 50 from current 0 gives 10); a change of the
\* target leaves current as it was.
EasingTickStep ==
    /\ lastOp.op = "frame" =>
          LET t == QI(lastOp.a[1])
              before == lastOp.a[2]
              gap == QAbs(QSub(t, before))
          IN  /\ QLe(<<1, 2>>, gap) =>
                    clarity = QAdd(before, QDiv(QSub(t, before), QI(5)))
              /\ QLt(gap, <<1, 2>>) => clarity = t
              /\ (t = QI(50) /\ before = QI(0)) => clarity = QI(10)
    /\ lastOp.op = "clarityChange" => clarity = lastOp.a[2]

\* C8 witness: the target was changed while the loop was part-way, and the
\* next tick continued from the value current had
EasingRetargetWitness ==
    /\ lastOp.op = "frame"
    /\ lastOp.a[1] = 0
    /\ lastOp.a[2] = QI(10)
    /\ clarity = QI(8)

\* C9: the loop ends at the target (the claim as stated): once the loop has
\* stopped and React has nothing left to render, current equals target
LoopStopsAtTarget ==
    (/\ ~animatingClarity
     /\ rendered = Current
     /\ rafPending = {})
    => clarity = QI(targetClarity)

\* C10: there is never more than one pending animation-frame callback, and
\* after the effect re-ran for a new target the pending one holds that target
AtMostOneEasingLoop ==
    /\ Cardinality(rafPending) <= 1
    /\ (lastOp.op = "render" /\ lastOp.a[2]) =>
          \A f \in rafPending : f.target = targetClarity /\ f.handle = animationFrame

\* C10 witness: the effect re-ran for a new target while the loop was part-way
RetargetAbsorbedWitness ==
    /\ lastOp.op = "render" /\ lastOp.a[2]
    /\ clarity[2] # 1
    /\ animatingClarity
    /\ rafPending = {[handle |-> 1, target |-> targetClarity]}

-----------------------------------------------------------------------------
(* Filter pipeline properties *)

FilterPassed == lastOp.op = "filter"

\* C4: with clarity = brightness = contrast = 0 the filter returns a raster of
\* the same size whose every byte, alpha included, is the input byte
FilterIdentityAtZero ==
    (/\ FilterPassed
     /\ rendered.clarity = QI(0)
     /\ rendered.brightness = 0
     /\ rendered.contrast = 0)
    => /\ outData.width = srcData.width
       /\ outData.height = srcData.height
       /\ Len(outData.data) = Len(srcData.data)
       /\ \A i \in 1..Len(srcData.data) : outData.data[i] = srcData.data[i]

\* C4 witness: the zero filter applied to a 3x3 raster with a translucent pixel
FilterIdentityWitness ==
    /\ FilterPassed
    /\ rendered.clarity = QI(0) /\ rendered.brightness = 0 /\ rendered.contrast = 0
    /\ srcData = Checker(3, 3, <<200, 100, 1, 128>>, <<64, 128, 254, 255>>)
    /\ outData = srcData

\* C5: clarity = 40 with brightness = contrast = 0 returns a uniform gray
\* raster unchanged (the claim as stated)
SharpenKeepsUniformGray ==
    (/\ FilterPassed
     /\ rendered.clarity = QI(40)
     /\ rendered.brightness = 0
     /\ rendered.contrast = 0
     /\ \E sz \in RasterSizes :
            srcData = Checker(sz[1], sz[2], <<100, 100, 100, 255>>, <<100, 100, 100, 255>>))
    => outData = srcData

\* weight * channel ch of the pixel at (x + dx, y + dy), or 0 when that pixel
\* is outside the raster
Tap(img, x, y, dx, dy, ch, weight) ==
    IF x + dx >= 0 /\ x + dx < img.width /\ y + dy >= 0 /\ y + dy < img.height
    THEN QMul(weight, QI(img.data[((y + dy) * img.width + x + dx) * 4 + ch + 1]))
    ELSE QI(0)

\* the sum over the 3x3 neighbourhood of (x, y) with weight 0 at the
\* corners, edge at the four sides and centre in the middle
NeighbourhoodSum(img, x, y, ch, edge, centre) ==
    QAdd(QAdd(QAdd(Tap(img, x, y, -1, -1, ch, QI(0)), Tap(img, x, y, 0, -1, ch, edge)),
              QAdd(Tap(img, x, y, 1, -1, ch, QI(0)), Tap(img, x, y, -1, 0, ch, edge))),
         QAdd(QAdd(Tap(img, x, y, 0, 0, ch, centre), Tap(img, x, y, 1, 0, ch, edge)),
              QAdd(QAdd(Tap(img, x, y, -1, 1, ch, QI(0)), Tap(img, x, y, 0, 1, ch, edge)),
                   Tap(img, x, y, 1, 1, ch, QI(0)))))

\* clamp(x, 0, 255) on rationals
Clamp255(x) == IF QLt(x, QI(0)) THEN QI(0) ELSE IF QLt(QI(255), x) THEN QI(255) ELSE x

\* n is x rounded to the nearest integer, a tie going to the even one
NearestEven(n, x) ==
    LET d == QAbs(QSub(x, QI(n)))
    IN  /\ QLe(d, <<1, 2>>)
        /\ d = <<1, 2>> => n % 2 = 0

\* factor * (c - 128) + 128, the contrast result before any clamp
ContrastOf(c, k) ==
    QAdd(QMul(QDiv(QI(259 * (k + 255)), QI(255 * (259 - k))), QI(c - 128)), QI(128))

\* C6 as stated: with clarity = 0 every colour byte is
\* clamp(channel' + brightness, 0, 255) (as a byte), channel' being the
\* unclamped contrast result
ToneRemapUnclamped ==
    (FilterPassed /\ rendered.clarity = QI(0)) =>
        \A i \in 1..Len(srcData.data) :
            (i - 1) % 4 # 3 =>
                NearestEven(outData.data[i],
                            Clamp255(QAdd(ContrastOf(srcData.data[i], rendered.contrast),
                                          QI(rendered.brightness))))

\* C6 amended: with clarity = 0 every colour byte is clamp(B + brightness, 0, 255),
\* where B is the contrast result factor * (c - 128) + 128 clamped to [0, 255]
\* and rounded to the nearest integer (ties to even); contrast comes first;
\* B = c when contrast = 0, the output is B when brightness = 0; alpha is kept
ToneRemapClampedBetween ==
    (FilterPassed /\ rendered.clarity = QI(0)) =>
        \A i \in 1..Len(srcData.data) :
            LET c == srcData.data[i]
                o == outData.data[i]
            IN  IF (i - 1) % 4 = 3 THEN o = c
                ELSE \E B \in 0..255 :
                        /\ NearestEven(B, Clamp255(ContrastOf(c, rendered.contrast)))
                        /\ QI(o) = Clamp255(QI(B + rendered.brightness))
                        /\ rendered.contrast = 0 => B = c
                        /\ rendered.brightness = 0 => o = B

\* C6 witness: contrast 100 and brightness -100 on a white pixel, whose
\* contrast result 416 is cut to 255 before the brightness is added
ToneRemapWitness ==
    /\ FilterPassed
    /\ rendered.clarity = QI(0)
    /\ rendered.contrast = 100
    /\ rendered.brightness = -100
    /\ srcData = Checker(1, 1, <<255, 255, 255, 255>>, <<255, 255, 255, 255>>)
    /\ outData.data = <<155, 155, 155, 255>>

\* C24: for clarity # 0 (and brightness = contrast = 0, so that the output is
\* that of the convolution) every colour byte of the output is
\* clamp(sum, 0, 255) as a byte, the sum over the 3x3 neighbourhood of the
\* unmodified input with the taps outside the raster skipped and the kernel
\* [0,-1,0,-1,5+clarity/20,-1,0,-1,0] for clarity >= 0 and
\* [0,1,0,1,3+clarity/50,1,0,1,0] for clarity < 0, and every alpha byte is 255
ConvolutionPerChannel ==
    (/\ FilterPassed
     /\ rendered.clarity # QI(0)
     /\ rendered.brightness = 0
     /\ rendered.contrast = 0)
    => LET c == rendered.clarity
           edge == IF QLe(QI(0), c) THEN QI(-1) ELSE QI(1)
           centre == IF QLe(QI(0), c) THEN QAdd(QI(5), QDiv(c, QI(20)))
                     ELSE QAdd(QI(3), QDiv(c, QI(50)))
       IN  /\ outData.width = srcData.width
           /\ outData.height = srcData.height
           /\ \A x \in 0..(srcData.width - 1), y \in 0..(srcData.height - 1) :
                 LET at == (y * srcData.width + x) * 4
                 IN  /\ outData.data[at + 4] = 255
                     /\ \A ch \in 0..2 :
                           NearestEven(outData.data[at + ch + 1],
                                       Clamp255(NeighbourhoodSum(srcData, x, y, ch,
                                                                 edge, centre)))

\* C24 witness: clarity 10 (centre weight 5.5) on a 3x3 raster of translucent
\* and opaque pixels: the middle pixel's red is 5.5 * 200 - 4 * 64 clamped,
\* the corner's blue is 5.5 * 1 - 2 * 254 clamped, and the alpha 128 became 255
ConvolutionWitness ==
    /\ FilterPassed
    /\ rendered.clarity = QI(10) /\ rendered.brightness = 0 /\ rendered.contrast = 0
    /\ srcData = Checker(3, 3, <<200, 100, 1, 128>>, <<64, 128, 254, 255>>)
    /\ PixelAt(outData, 4) = <<255, 38, 0, 255>>
    /\ PixelAt(outData, 0)[3] = 0
    /\ PixelAt(outData, 1)[1] = 0

-----------------------------------------------------------------------------
(* Background properties *)

ZeroParameters ==
    rendered.clarity = QI(0) /\ rendered.brightness = 0 /\ rendered.contrast = 0

\* C22: every pixel of the exported raster has alpha 255, and with the three
\* filter parameters at 0 every exported pixel the image does not cover is
\* white
ExportOpaqueWhiteBacked ==
    lastOp.op = "exportPixels" =>
        \A p \in 0..(srcData.width * srcData.height - 1) :
            /\ PixelAt(outData, p)[4] = 255
            /\ (ZeroParameters /\ PixelAt(srcData, p) = Transparent)
                  => PixelAt(outData, p) = White

\* C22 witness: an export with the parameters at 0 of a 3x2 layer whose
\* covered pixels are translucent: the uncovered pixel 1 is white and the
\* covered pixel 0 is opaque
ExportBackdropWitness ==
    /\ lastOp.op = "exportPixels"
    /\ ZeroParameters
    /\ srcData = Checker(3, 2, <<200, 100, 1, 128>>, Transparent)
    /\ PixelAt(outData, 1) = White
    /\ PixelAt(outData, 0)[4] = 255
    /\ PixelAt(outData, 0) # White

\* C23: in a preview render with an image loaded and the three filter
\* parameters at 0, every canvas pixel the transformed image does not cover
\* is opaque white before the overlay is drawn (the claim as stated)
PreviewBackdropWhite ==
    (lastOp.op = "previewPixels" /\ ZeroParameters) =>
        \A p \in 0..(srcData.width * srcData.height - 1) :
            PixelAt(srcData, p) = Transparent => PixelAt(outData, p) = White

-----------------------------------------------------------------------------
(* Crop geometry properties *)

\* C7: the crop rectangle of the preview overlay and the crop rectangle of the
\* export are centered in the canvas (the claim as stated)
CropRectCentered ==
    /\ QSub(QI(canvas.width), QMul(QI(2), overlay.cx)) = QI(overlay.cropPxW)
    /\ QSub(QI(canvas.height), QMul(QI(2), overlay.cy)) = QI(overlay.cropPxH)
    /\ lastOp.op = "export" =>
          /\ canvas.width - 2 * cropOut.cropX = cropOut.width
          /\ canvas.height - 2 * cropOut.cropY = cropOut.height

\* C21: the export raster has the size of the crop rectangle of the preview
\* and is drawn with the preview transform translated so that the top-left
\* corner (cx, cy) of that rectangle maps to (0, 0): export pixel (i, j) shows
\* the image point of preview pixel (cx + i, cy + j), through the same filter
\* pass with the same three parameters (the claim as stated)
ExportMatchesPreview ==
    lastOp.op = "export" =>
        /\ cropOut.width = overlay.cropPxW
        /\ cropOut.height = overlay.cropPxH
        /\ cropOut.layer.image = shown.image
        /\ cropOut.layer.scale = shown.scale
        /\ cropOut.layer.offsetX = QSub(shown.offsetX, overlay.cx)
        /\ cropOut.layer.offsetY = QSub(shown.offsetY, overlay.cy)
        /\ cropOut.layer.pass = shown.pass

-----------------------------------------------------------------------------
(* The session from Empty: loads, edits, exports *)

\* slider values of the session
SessionTargets == {0, 2}
SessionBrightnesses == {0, 30}
SessionContrasts == {0, 100}
SessionPresets == {<<[num |-> QI(35), suffix |-> "mm"], [num |-> QI(45), suffix |-> "mm"]>>}
\* zoomFactor of the session's wheel events
SessionZooms == {<<4, 1>>}

SessionNext ==
    \/ \E sz \in ImageSizes : LoadImage(sz[1], sz[2])
    \/ LoadFailed
    \/ \E v \in FitModes : SetFitMode(v)
    \/ ResetButton
    \/ \E f \in SessionZooms : HandleWheel(300, 450, f)
    \/ \E v \in SessionTargets : HandleClarityChange(v)
    \/ \E f \in rafPending : Frame(f)
    \/ \E v \in SessionBrightnesses : SetBrightness(v)
    \/ \E v \in SessionContrasts : SetContrast(v)
    \/ \E p \in SessionPresets : HandlePresetClick(p[1], p[2])
    \/ GetCroppedCanvas
    \/ Render

SessionSpec == Init /\ [][SessionNext]_vars

-----------------------------------------------------------------------------
(* The preset resolver as a function of its two strings *)

\* strings handlePresetClick can be called with: "35mm", "45mm", "2in", "2",
\* "35cm", "abc", ""
PresetStrings ==
    {[num |-> QI(35), suffix |-> "mm"], [num |-> QI(45), suffix |-> "mm"],
     [num |-> QI(2), suffix |-> "in"], [num |-> QI(2), suffix |-> ""],
     [num |-> QI(35), suffix |-> "cm"], [num |-> NaN, suffix |-> "abc"],
     [num |-> NaN, suffix |-> ""]}

PresetInit == CropInit

PresetNext == \E w \in PresetStrings, h \in PresetStrings : HandlePresetClick(w, h)

PresetSpec == PresetInit /\ [][PresetNext]_vars

-----------------------------------------------------------------------------
(* Paper and crop size field properties *)

\* a parsed dimension that is not a positive number
InvalidDimension(text) ==
    LET x == ParseFloat(text) IN x = NaN \/ x[1] <= 0

\* C11: Apply with a crop (paper) width or height that parses to a value <= 0
\* or does not parse leaves cropSize (paperSize) as it was (the claim as stated)
InvalidDimensionRejected ==
    /\ (/\ lastOp.op = "applyCropSize"
        /\ (InvalidDimension(lastOp.a[1]) \/ InvalidDimension(lastOp.a[2])))
       => cropSize = lastOp.a[3]
    /\ (/\ lastOp.op = "applyCustomPaper"
        /\ (InvalidDimension(lastOp.a[1]) \/ InvalidDimension(lastOp.a[2])))
       => paperSize = lastOp.a[3]

\* a preset string the resolver is specified to accept
Recognized(val) == ParseFloat(val) # NaN /\ val.suffix \in {"mm", "in", ""}

PresetRoundsCropSize ==
    /\ MmToIn(<<127, 5>>) = QI(1)
    /\ \A d \in {1, 2} :
          (lastOp.op = "preset" /\ lastOp.a[d] = [num |-> QI(35), suffix |-> "mm"])
          => (IF d = 1 THEN cropSize.w ELSE cropSize.h) = <<138, 100>>

\* C13 amended: mmToIn(25.4) = 1; the preset "35mm" stores the crop dimension
\* 35 / 25.4 unrounded and puts 1.38, that value rounded to 2 decimals, in the
\* crop size field; for every preset the field is within 0.005 of the stored
\* dimension and is a multiple of 0.01
PresetShowsRoundedKeepsExact ==
    /\ MmToIn(<<127, 5>>) = QI(1)
    /\ lastOp.op = "preset" =>
          /\ lastOp.a[1] = [num |-> QI(35), suffix |-> "mm"]
             => /\ cropSize.w = <<175, 127>>
                /\ cropInput.w = NumberText(<<69, 50>>)
          /\ \A f \in Fields :
                /\ QLe(QAbs(QSub(ParseFloat(cropInput[f]), cropSize[f])), <<1, 200>>)
                /\ 100 % ParseFloat(cropInput[f])[2] = 0
                /\ cropInput[f].suffix = ""

\* C13 witness: the 35 x 45 mm preset, whose two fields are rounded up and down
PresetAppliedWitness ==
    /\ lastOp.op = "preset"
    /\ lastOp.a[1] = [num |-> QI(35), suffix |-> "mm"]
    /\ cropSize = [w |-> <<175, 127>>, h |-> <<225, 127>>]
    /\ cropInput = [w |-> NumberText(<<69, 50>>), h |-> NumberText(<<177, 100>>)]

-----------------------------------------------------------------------------
(* Session properties *)

\* C14: while no image is loaded no viewport operation changes the scale, the
\* offsets or the dragging flag (they stay as the component was mounted with),
\* and dragging is never true
ViewportIdleWhileEmpty ==
    ~imageLoaded =>
        /\ imageState.scale = InitialImageState.scale
        /\ imageState.offsetX = InitialImageState.offsetX
        /\ imageState.offsetY = InitialImageState.offsetY
        /\ ~imageState.dragging

\* C14 witness: three events handled with no image loaded, the last a wheel
EmptyWheelIgnoredWitness ==
    /\ ~imageLoaded
    /\ nOps >= 3
    /\ lastOp = [op |-> "ignored", a |-> <<"wheel">>]

SettingsVars == <<clarity, targetClarity, brightness, contrast, cropSize>>

\* C16: a failed decode changes neither the session (imageLoaded, image) nor
\* the transform, the filter parameters or the crop size, and imageLoaded
\* becomes true only in the step of a successful decode
DecodeFailureChangesNothing ==
    /\ [][lastOp'.op = "loadFailed" =>
            UNCHANGED <<image, imageLoaded, imageState, SettingsVars>>]_vars
    /\ [][(~imageLoaded /\ imageLoaded') => lastOp'.op = "load"]_vars

\* C16 witness: a load that failed on the empty session, which is still empty
FailedLoadOnEmptyWitness ==
    /\ lastOp.op = "loadFailed"
    /\ ~imageLoaded
    /\ image = NoImage

\* C17: imageLoaded implies a non-null image in every state, no step sets
\* imageLoaded back to false, and an export or save leaves the session loaded
\* and the transform unchanged
LoadedNeverReturnsToEmpty ==
    /\ [](imageLoaded => image # NoImage)
    /\ [][imageLoaded => imageLoaded']_vars
    /\ [][lastOp'.op = "export" => (imageLoaded' /\ imageState' = imageState)]_vars

\* C17 witness: an export of a zoomed image, after which the session is still
\* loaded
ExportKeepsLoadedWitness ==
    /\ lastOp.op = "export"
    /\ imageLoaded
    /\ image # NoImage
    /\ cropOut # NoCrop
    /\ imageState.scale # <<3, 5>>

\* C18: a render that commits a new image or a new fit mode leaves the
\* transform re-derived for them (scale min or max of the two ratios, image
\* centered, not dragging); clarity, brightness, contrast and crop size
\* edits, easing ticks and renders with the same image and fit mode leave the
\* transform as it was
TransformReinitialized ==
    /\ []((lastOp.op = "render" /\ imageLoaded /\ (lastOp.a[3] \/ lastOp.a[4])) =>
            LET sx == QDiv(QI(canvas.width), QI(image.w))
                sy == QDiv(QI(canvas.height), QI(image.h))
                sc == IF fitMode = "fit" THEN QMin(sx, sy) ELSE QMax(sx, sy)
            IN  /\ imageState.scale = sc
                /\ imageState.offsetX
                     = QDiv(QSub(QI(canvas.width), QMul(QI(image.w), sc)), QI(2))
                /\ imageState.offsetY
                     = QDiv(QSub(QI(canvas.height), QMul(QI(image.h), sc)), QI(2))
                /\ ~imageState.dragging)
    /\ [][lastOp'.op \in {"clarityChange", "frame", "brightness", "contrast", "preset"}
            => imageState' = imageState]_vars
    /\ [][(lastOp'.op = "render" /\ ~lastOp'.a[3] /\ ~lastOp'.a[4])
            => imageState' = imageState]_vars

\* C18 witness: the fit mode was toggled on a zoomed image and the render
\* re-derived the Fill transform of the 1000x1000 image
FitToggleReinitializedWitness ==
    /\ lastOp.op = "render"
    /\ lastOp.a[4]
    /\ ~lastOp.a[3]
    /\ rendered.imageState.scale = <<8, 5>>
    /\ fitMode = "fill"
    /\ imageState.scale = <<3, 5>>
    /\ imageState.offsetX = QI(-100)

\* C19: a successful load, the render and reset effect that follow it, and
\* the Reset button leave clarity (current and target), brightness, contrast
\* and crop size unchanged
SettingsSurviveLoad ==
    [][lastOp'.op \in {"load", "render", "resetButton"} => UNCHANGED SettingsVars]_vars

\* C19 witness: a second image loaded with brightness and clarity target set
SecondLoadKeepsSettingsWitness ==
    /\ lastOp.op = "load"
    /\ image.id = 2
    /\ brightness = 30
    /\ targetClarity = 2

-----------------------------------------------------------------------------
(* Preview properties *)

\* C20: in every state the image layer of the canvas is the one drawn for the
\* image, transform and filter parameters of the latest render, so once React
\* has rendered the current state the pixels shown come from the pass with
\* the current clarity, brightness and contrast; no step puts back the
\* result of a pass for older values
ShownPassIsLatest ==
    /\ rendered.imageLoaded => shown = DrawImage(rendered)
    /\ (rendered = Current /\ imageLoaded) =>
          shown.pass = IF clarity # QI(0) \/ brightness # 0 \/ contrast # 0
                       THEN <<clarity, brightness, contrast>>
                       ELSE <<>>

\* C20 witness: the brightness was changed while the clarity loop was part-way
\* and the canvas shows the pass for both latest values
ShownLatestPassWitness ==
    /\ rendered = Current
    /\ brightness = 30
    /\ clarity[2] # 1
    /\ lastOp.op = "render"
    /\ shown.pass = <<clarity, 30, 0>>

-----------------------------------------------------------------------------
(* Load ordering properties *)

\* every load started so far has been decoded, and all of them were started
\* before any had completed
AllStartedThenDecoded ==
    /\ Len(loads) >= 2
    /\ \A i \in 1..Len(loads) : loads[i].stage = "loaded" /\ loads[i].completedAtStart = 0

\* C27: when several loads are started before any completes, the image held
\* once all of them have completed is the one requested last
LastRequestedImageHeld == AllStartedThenDecoded => image.id = Len(loads)

-----------------------------------------------------------------------------
(* DPI properties *)

\* C28: the pixel sizes of the paper and of the crop are the same at 300 and
\* at 76 DPI, so the canvas on screen has the size of its paper at either DPI
SizesIndependentOfDpi ==
    /\ \A d \in Dpis, v \in {paperSize.w, paperSize.h, cropSize.w, cropSize.h} :
           InchesToPx(v, d, innerHeight) = InchesToPx(v, dpi, innerHeight)
    /\ rendered = Current =>
           \A d \in Dpis : canvas = CanvasSize(paperSize, d, innerHeight)

-----------------------------------------------------------------------------
(* The print layout editor (PrintLayoutEditor component) *)
(* A discrete input event is rendered before the next one is handled, so   *)
(* the closures of a handler hold the state the previous event left.       *)

PageSizeNames == {"4x6", "a4"}

PAGE_SIZES(name) ==
    IF name = "4x6"
    THEN [widthIn |-> QI(4), heightIn |-> QI(6)]
    ELSE [widthIn |-> <<827, 100>>, heightIn |-> <<1169, 100>>]

\* Screen DPI for display
DPI == 96
pageWidthPx(name) == QMul(PAGE_SIZES(name).widthIn, QI(DPI))
pageHeightPx(name) == QMul(PAGE_SIZES(name).heightIn, QI(DPI))

\* width x height of the saved crops offered: the default 1.13 x 1.37 in
\* crop and a 0.5 x 5 in strip
SavedCrops == {<<113, 137>>, <<50, 500>>}
\* where on a photo the pointer goes down, from the photo's corner
Grabs == {<<0, 0>>, <<50, 60>>}
\* pointer positions of a drag, relative to the page (the listener is on window)
LayoutPoints == {<<-40, -40>>, <<200, 300>>, <<900, 1200>>}
LayoutKeys == {"ArrowLeft", "ArrowRight", "ArrowUp", "ArrowDown", "Delete"}

PhotoIds(ps) == {ps[i].id : i \in 1..Len(ps)}
\* photos.filter(p => keep(p))
FilterPhotos(ps, drop) == SelectSeq(ps, LAMBDA p : p.id \notin drop)

\* handleAddPhoto: 100 px wide, centred on the page
HandleAddPhoto(crop) ==
    LET photoWidth == QI(100)
        photoHeight == QMul(QDiv(QI(crop[2]), QI(crop[1])), photoWidth)
        newPhoto == [id |-> photoSeq + 1,
                     x |-> QDiv(QSub(pageWidthPx(pageSize), photoWidth), QI(2)),
                     y |-> QDiv(QSub(pageHeightPx(pageSize), photoHeight), QI(2)),
                     width |-> photoWidth,
                     height |-> photoHeight]
    IN  /\ nOps < MaxOps
        /\ photos' = Append(photos, newPhoto)
        /\ photoSeq' = photoSeq + 1
        /\ lastOp' = [op |-> "addPhoto", a |-> <<crop[1], crop[2]>>]
        /\ nOps' = nOps + 1
        /\ UNCHANGED <<pageSize, selectedPhotoIds, dragging, dragOffset, indexVars, loadVars>>

\* handleDeletePhoto: the X button of a selected photo
HandleDeletePhoto(photoId) ==
    /\ nOps < MaxOps
    /\ photoId \in PhotoIds(photos) \cap selectedPhotoIds
    /\ photos' = FilterPhotos(photos, {photoId})
    /\ selectedPhotoIds' = selectedPhotoIds \ {photoId}
    /\ lastOp' = [op |-> "deletePhoto", a |-> <<photoId>>]
    /\ nOps' = nOps + 1
    /\ UNCHANGED <<pageSize, dragging, dragOffset, photoSeq, indexVars, loadVars>>

\* handleDeleteSelected: the Delete Selected button (disabled with no selection)
HandleDeleteSelected ==
    /\ nOps < MaxOps
    /\ selectedPhotoIds # {}
    /\ photos' = FilterPhotos(photos, selectedPhotoIds)
    /\ selectedPhotoIds' = {}
    /\ lastOp' = [op |-> "deleteSelected", a |-> <<>>]
    /\ nOps' = nOps + 1
    /\ UNCHANGED <<pageSize, dragging, dragOffset, photoSeq, indexVars, loadVars>>

\* handleMouseDown on the photo photoId, grabbed at `grab` from its corner
HandlePhotoMouseDown(photoId, multi, grab) ==
    /\ nOps < MaxOps
    /\ photoId \in PhotoIds(photos)
    /\ IF multi
       THEN /\ selectedPhotoIds' = IF photoId \in selectedPhotoIds
                                   THEN selectedPhotoIds \ {photoId}
                                   ELSE selectedPhotoIds \cup {photoId}
            /\ UNCHANGED <<dragging, dragOffset>>
       ELSE /\ selectedPhotoIds' = IF photoId \in selectedPhotoIds
                                   THEN selectedPhotoIds
                                   ELSE {photoId}
            /\ dragging' = TRUE
            /\ dragOffset' = [x |-> QI(grab[1]), y |-> QI(grab[2])]
    /\ lastOp' = [op |-> "photoMouseDown", a |-> <<photoId, multi, grab>>]
    /\ nOps' = nOps + 1
    /\ UNCHANGED <<pageSize, photos, photoSeq, indexVars, loadVars>>

\* the first photo of the page that is selected
PrimaryPhoto(ps, sel) ==
    ps[CHOOSE i \in 1..Len(ps) :
           /\ ps[i].id \in sel
           /\ \A j \in 1..(i - 1) : ps[j].id \notin sel]

\* Math.max(0, Math.min(v, hi))
ClampToPage(v, hi) == QMax(QI(0), QMin(v, hi))

\* handleMouseMove (window listener, registered while dragging) at point (x, y)
\* relative to the page
HandleLayoutMouseMove(x, y) ==
    /\ nOps < MaxOps
    /\ dragging
    /\ IF selectedPhotoIds = {} \/ PhotoIds(photos) \cap selectedPhotoIds = {}
       THEN UNCHANGED photos
       ELSE LET newX == QSub(QI(x), dragOffset.x)
                newY == QSub(QI(y), dragOffset.y)
                primaryPhoto == PrimaryPhoto(photos, selectedPhotoIds)
                deltaX == QSub(newX, primaryPhoto.x)
                deltaY == QSub(newY, primaryPhoto.y)
            IN  photos' = [i \in 1..Len(photos) |->
                    LET p == photos[i]
                    IN  IF p.id \in selectedPhotoIds
                        THEN [p EXCEPT
                                !.x = ClampToPage(QAdd(p.x, deltaX),
                                                  QSub(pageWidthPx(pageSize), p.width)),
                                !.y = ClampToPage(QAdd(p.y, deltaY),
                                                  QSub(pageHeightPx(pageSize), p.height))]
                        ELSE p]
    /\ lastOp' = [op |-> "layoutMouseMove", a |-> <<x, y>>]
    /\ nOps' = nOps + 1
    /\ UNCHANGED <<pageSize, selectedPhotoIds, dragging, dragOffset, photoSeq,
                   indexVars, loadVars>>

\* handleMouseUp (window listener, registered while dragging)
HandleLayoutMouseUp ==
    /\ nOps < MaxOps
    /\ dragging
    /\ dragging' = FALSE
    /\ lastOp' = [op |-> "layoutMouseUp", a |-> <<>>]
    /\ nOps' = nOps + 1
    /\ UNCHANGED <<pageSize, photos, selectedPhotoIds, dragOffset, photoSeq,
                   indexVars, loadVars>>

\* the switch of handleKeyDown for one selected photo
MoveByKey(p, key, step, name) ==
    IF key = "ArrowLeft" THEN [p EXCEPT !.x = QMax(QI(0), QSub(p.x, QI(step)))]
    ELSE IF key = "ArrowRight"
    THEN [p EXCEPT !.x = QMin(QSub(pageWidthPx(name), p.width), QAdd(p.x, QI(step)))]
    ELSE IF key = "ArrowUp" THEN [p EXCEPT !.y = QMax(QI(0), QSub(p.y, QI(step)))]
    ELSE IF key = "ArrowDown"
    THEN [p EXCEPT !.y = QMin(QSub(pageHeightPx(name), p.height), QAdd(p.y, QI(step)))]
    ELSE p

\* handleKeyDown (window listener); Delete and Backspace hand over to
\* handleDeleteSelected through a 0 ms timer, which runs before the next input
HandleLayoutKeyDown(key, shiftKey) ==
    /\ nOps < MaxOps
    /\ IF selectedPhotoIds = {}
       THEN UNCHANGED <<photos, selectedPhotoIds>>
       ELSE IF key = "Delete"
       THEN /\ photos' = IF PhotoIds(photos) \cap selectedPhotoIds = {}
                         THEN photos
                         ELSE FilterPhotos(photos, selectedPhotoIds)
            /\ selectedPhotoIds' = IF PhotoIds(photos) \cap selectedPhotoIds = {}
                                   THEN selectedPhotoIds
                                   ELSE {}
       ELSE /\ photos' = [i \in 1..Len(photos) |->
                            IF photos[i].id \in selectedPhotoIds
                            THEN MoveByKey(photos[i], key, IF shiftKey THEN 10 ELSE 1,
                                           pageSize)
                            ELSE photos[i]]
            /\ UNCHANGED selectedPhotoIds
    /\ lastOp' = [op |-> "layoutKeyDown", a |-> <<key, shiftKey>>]
    /\ nOps' = nOps + 1
    /\ UNCHANGED <<pageSize, dragging, dragOffset, photoSeq, indexVars, loadVars>>

\* the Page Size select: setPageSize
SetPageSize(value) ==
    /\ nOps < MaxOps
    /\ value # pageSize
    /\ pageSize' = value
    /\ lastOp' = [op |-> "pageSize", a |-> <<value>>]
    /\ nOps' = nOps + 1
    /\ UNCHANGED <<photos, selectedPhotoIds, dragging, dragOffset, photoSeq,
                   indexVars, loadVars>>

\* handlePageMouseLeave
HandlePageMouseLeave ==
    /\ nOps < MaxOps
    /\ selectedPhotoIds' = {}
    /\ lastOp' = [op |-> "pageMouseLeave", a |-> <<>>]
    /\ nOps' = nOps + 1
    /\ UNCHANGED <<pageSize, photos, dragging, dragOffset, photoSeq, indexVars, loadVars>>

\* onClick of the page, also reached by a click that bubbles up from a photo
HandlePageClick ==
    /\ nOps < MaxOps
    /\ selectedPhotoIds' = {}
    /\ lastOp' = [op |-> "pageClick", a |-> <<>>]
    /\ nOps' = nOps + 1
    /\ UNCHANGED <<pageSize, photos, dragging, dragOffset, photoSeq, indexVars, loadVars>>

\* the Clear All Photos button (disabled with no photo): setPhotos([])
ClearAllPhotos ==
    /\ nOps < MaxOps
    /\ photos # <<>>
    /\ photos' = <<>>
    /\ lastOp' = [op |-> "clearAll", a |-> <<>>]
    /\ nOps' = nOps + 1
    /\ UNCHANGED <<pageSize, selectedPhotoIds, dragging, dragOffset, photoSeq,
                   indexVars, loadVars>>

LayoutInit == CropInit

LayoutNext ==
    \/ \E crop \in SavedCrops : HandleAddPhoto(crop)
    \/ \E id \in PhotoIds(photos) : HandleDeletePhoto(id)
    \/ HandleDeleteSelected
    \/ \E id \in PhotoIds(photos), multi \in BOOLEAN, g \in Grabs : HandlePhotoMouseDown(id, multi, g)
    \/ \E p \in LayoutPoints : HandleLayoutMouseMove(p[1], p[2])
    \/ HandleLayoutMouseUp
    \/ \E k \in LayoutKeys, shiftKey \in BOOLEAN : HandleLayoutKeyDown(k, shiftKey)
    \/ \E v \in PageSizeNames : SetPageSize(v)
    \/ HandlePageMouseLeave
    \/ HandlePageClick
    \/ ClearAllPhotos

LayoutSpec == LayoutInit /\ [][LayoutNext]_vars

-----------------------------------------------------------------------------
(* Layout properties *)

\* C29: every photo lies inside the page:
\* 0 <= x <= pageWidthPx - width and 0 <= y <= pageHeightPx - height
PhotosInsidePage ==
    \A i \in 1..Len(photos) :
        LET p == photos[i]
        IN  /\ QLe(QI(0), p.x)
            /\ QLe(p.x, QSub(pageWidthPx(pageSize), p.width))
            /\ QLe(QI(0), p.y)
            /\ QLe(p.y, QSub(pageHeightPx(pageSize), p.height))

\* C30: the selection only names photos on the page
SelectionNamesPhotos == selectedPhotoIds \subseteq PhotoIds(photos)


====
